---- MODULE Spec2Model ----
(***************************************************************************)
(* A model of src/policy/runtime.py: the Database (bag of ground tuples    *)
(* with per-tuple proof collections), the top-down evaluation engine, the  *)
(* DeltaRuleTheory, the MaterializedViewTheory (event queue and delta      *)
(* propagation) and the Runtime facade (routing, simulate/project).        *)
(*                                                                         *)
(* Representation.                                                         *)
(*   Term     [var |-> "x"]  or  [val |-> 1]                               *)
(*   Atom     [table |-> "p", args |-> <<Term,...>>, neg |-> BOOLEAN]       *)
(*            (a compile.Literal is an Atom with neg = TRUE)               *)
(*   Rule     [head |-> Atom, body |-> <<Literal,...>>]                    *)
(*   Proof    [binding |-> (variable name -> Term), rule |-> Rule]         *)
(*   DBTuple  [tuple |-> <<1,2>>, proofs |-> <<Proof,...>>]                *)
(*   Event    [formula |-> Atom or Rule, insert |-> BOOLEAN,               *)
(*             proofs |-> <<Proof,...>>]                                   *)
(* Python lists are sequences; Python dicts are functions whose DOMAIN is  *)
(* the set of keys, so "table not in self.data" is  t \notin DOMAIN d.     *)
(* Objects are named by the abbreviations the code gives them:             *)
(*   "DB" "Clas" "ClasDB" "Enfor" "EnforDB" "Act" "Serv" "Temp".           *)
(***************************************************************************)
EXTENDS Integers, Sequences, FiniteSets, TLC

VARIABLES
    data,       \* database object -> Database.data (table -> list of DBTuple)
    delta,      \* materialized theory -> its DeltaRuleTheory fields
    queue,      \* materialized theory -> its EventQueue (a list of Events)
    contents,   \* nonrecursive theory -> NonrecursiveRuleTheory.contents
    includes,   \* theory -> its includes list
    logger,     \* Runtime.logger.messages
    pc,         \* position of the in-flight MaterializedViewTheory.modify
    ret,        \* what the last operation returned
    op          \* the last operation and its arguments

vars == <<data, delta, queue, contents, includes, logger, pc, ret, op>>

-----------------------------------------------------------------------------
(* Bounds of the model. *)

\* the constants of the one-rule scenarios are 1..MaxConst
MaxConst == 2

\* the constants of the scenarios with rules p(x) :- q(x) and p(x) :- r(x)
\* are 1..MaxConstPQR
MaxConstPQR == 1

\* the nodes of the edge relation e are 1..MaxNode
MaxNode == 4

\* the proofs handed to a Database directly are numbered 1..MaxProof
MaxProof == 2

\* the tuples handed to a Database directly are (1) .. (MaxRow)
MaxRow == 1

\* the nodes of the edge relation e, cycles allowed, are 1..MaxLoopNode
MaxLoopNode == 2

\* the update sequences handed to simulate have 1..MaxSeq updates
MaxSeq == 2

-----------------------------------------------------------------------------
(* Terms, atoms, rules. *)

V(name) == [var |-> name]
C(value) == [val |-> value]

is_variable(term) == "var" \in DOMAIN term

Atom(table, args) == [table |-> table, args |-> args, neg |-> FALSE]
Not(atom) == [atom EXCEPT !.neg = TRUE]
Rule(head, body) == [head |-> head, body |-> body]

is_atom(formula) == "table" \in DOMAIN formula

tablename(formula) == IF is_atom(formula) THEN formula.table ELSE formula.head.table

is_ground(atom) == \A i \in 1..Len(atom.args) : ~is_variable(atom.args[i])

\* the python values of a ground atom's arguments
argument_names(atom) == [i \in 1..Len(atom.args) |-> atom.args[i].val]

create_from_table_tuple(table, tuple) ==
    Atom(table, [i \in 1..Len(tuple) |-> C(tuple[i])])

Event(formula, insert, proofs) ==
    [formula |-> formula, insert |-> insert, proofs |-> proofs]

-----------------------------------------------------------------------------
(* Database.ProofCollection: a list with set-semantic comparison. *)

\* `proof in contents`
ProofIn(proof, coll) == \E i \in 1..Len(coll) : coll[i] = proof

\* a subtraction that drops every proof as soon as one is removed
ProofCollection_isub_all(self, other) ==
    IF \E i \in 1..Len(other) : ProofIn(other[i], self) THEN <<>> ELSE self

ProofCollection_isub(self, other) ==
    SelectSeq(self, LAMBDA proof : ~ProofIn(proof, other))

\* a union that keeps only the proofs handed in
ProofCollection_ior_replace(self, other) == other

RECURSIVE ProofCollection_ior(_, _)
ProofCollection_ior(self, other) ==
    IF other = <<>> THEN self
    ELSE ProofCollection_ior(
            IF ProofIn(Head(other), self) THEN self ELSE Append(self, Head(other)),
            Tail(other))

\* self >= iterable, also what `iterable <= self` evaluates when iterable is a list
ProofCollection_ge(self, iterable) ==
    \A i \in 1..Len(iterable) : ProofIn(iterable[i], self)

-----------------------------------------------------------------------------
(* Database: d is Database.data. *)

DBTuple(tuple, proofs) == [tuple |-> tuple, proofs |-> proofs]

Database_is_noop(d, event) ==
    LET noop == event.insert
        table == event.formula.table
    IN  IF table \notin DOMAIN d THEN ~noop
        ELSE LET raw_tuple == argument_names(event.formula)
                 found == \E i \in 1..Len(d[table]) :
                             /\ d[table][i].tuple = raw_tuple
                             /\ ProofCollection_ge(d[table][i].proofs, event.proofs)
             IN  IF found THEN noop ELSE ~noop

\* index of the first DBTuple of rows whose tuple is raw, 0 when there is none
FirstIndex(rows, raw) ==
    IF \E i \in 1..Len(rows) : rows[i].tuple = raw
    THEN CHOOSE i \in 1..Len(rows) :
            /\ rows[i].tuple = raw
            /\ \A j \in 1..(i - 1) : rows[j].tuple # raw
    ELSE 0

RemoveAt(seq, i) == [j \in 1..(Len(seq) - 1) |-> IF j < i THEN seq[j] ELSE seq[j + 1]]

Database_insert_append(d, atom, proofs) ==
    LET table == atom.table
        dbtuple == DBTuple(argument_names(atom), proofs)
    IN  IF table \notin DOMAIN d THEN d @@ (table :> <<dbtuple>>)
        ELSE [d EXCEPT ![table] = Append(@, dbtuple)]

Database_insert(d, atom, proofs) ==
    LET table == atom.table
        dbtuple == DBTuple(argument_names(atom), proofs)
    IN  IF table \notin DOMAIN d THEN d @@ (table :> <<dbtuple>>)
        ELSE LET i == FirstIndex(d[table], dbtuple.tuple)
             IN  IF i # 0
                 THEN [d EXCEPT ![table][i].proofs =
                            ProofCollection_ior(@, dbtuple.proofs)]
                 ELSE [d EXCEPT ![table] = Append(@, dbtuple)]

Database_delete_keep(d, atom, proofs) ==
    LET table == atom.table
        raw == argument_names(atom)
    IN  IF table \notin DOMAIN d THEN d
        ELSE LET i == FirstIndex(d[table], raw)
             IN  IF i = 0 THEN d
                 ELSE [d EXCEPT ![table][i].proofs = ProofCollection_isub(@, proofs)]

Database_delete(d, atom, proofs) ==
    LET table == atom.table
        raw == argument_names(atom)
    IN  IF table \notin DOMAIN d THEN d
        ELSE LET i == FirstIndex(d[table], raw)
             IN  IF i = 0 THEN d
                 ELSE LET remaining == ProofCollection_isub(d[table][i].proofs, proofs)
                      IN  IF Len(remaining) = 0
                          THEN [d EXCEPT ![table] = RemoveAt(@, i)]
                          ELSE [d EXCEPT ![table][i].proofs = remaining]

Database_modify_late_noop(d, atom, is_insert, proofs) ==
    LET event == Event(atom, is_insert, proofs)
        changed == IF is_insert THEN Database_insert(d, atom, proofs)
                   ELSE Database_delete(d, atom, proofs)
    IN  IF Database_is_noop(d, event) THEN [data |-> changed, changes |-> <<>>]
        ELSE [data |-> changed, changes |-> <<event>>]

\* returns the new Database.data and the list of changes (0 or 1 Event)
Database_modify(d, atom, is_insert, proofs) ==
    LET event == Event(atom, is_insert, proofs)
    IN  IF Database_is_noop(d, event) THEN [data |-> d, changes |-> <<>>]
        ELSE [data |-> IF is_insert THEN Database_insert(d, atom, proofs)
                       ELSE Database_delete(d, atom, proofs),
              changes |-> <<event>>]

-----------------------------------------------------------------------------
(* The objects of a Runtime and the world record the operators work on:     *)
(* w = [data, delta, queue, contents, includes, logger].                    *)

DatabaseObjs == {"DB", "ClasDB", "EnforDB"}
MaterializedObjs == {"Clas", "Enfor"}
NonrecursiveObjs == {"Act", "Serv", "Temp"}

\* MaterializedViewTheory.database
database(th) == IF th = "Clas" THEN "ClasDB" ELSE "EnforDB"

-----------------------------------------------------------------------------
(* unify.BiUnifier.  A store maps <<variable name, scope>> to               *)
(* [term, scope]; a scope stands for one BiUnifier object.                  *)

EmptyStore == [k \in {} |-> {}]

RECURSIVE apply_full(_, _, _)
apply_full(store, term, scope) ==
    IF is_variable(term) /\ <<term.var, scope>> \in DOMAIN store
    THEN apply_full(store, store[<<term.var, scope>>].term,
                    store[<<term.var, scope>>].scope)
    ELSE [term |-> term, scope |-> scope]

apply(store, term, scope) == apply_full(store, term, scope).term

\* BiUnifier.add: returns the store; the change record is the key added
add(store, var, scope, term, termscope) ==
    store @@ (<<var.var, scope>> :> [term |-> term, scope |-> termscope])

\* unify.undo_all
undo_all(store, changes) ==
    [k \in (DOMAIN store) \ {changes[i] : i \in 1..Len(changes)} |-> store[k]]

\* Atom.plug with a BiUnifier
plug(atom, store, scope) ==
    [atom EXCEPT !.args = [i \in 1..Len(atom.args) |-> apply(store, atom.args[i], scope)]]

\* Atom.plug with a dictionary binding (variable name -> Term)
plug_dict(atom, binding) ==
    [atom EXCEPT !.args = [i \in 1..Len(atom.args) |->
        IF is_variable(atom.args[i]) /\ atom.args[i].var \in DOMAIN binding
        THEN binding[atom.args[i].var] ELSE atom.args[i]]]

variables_of_atom(atom) ==
    {atom.args[i].var : i \in {j \in 1..Len(atom.args) : is_variable(atom.args[j])}}

\* Rule.variables / Atom.variables
variables(formula) ==
    IF is_atom(formula) THEN variables_of_atom(formula)
    ELSE variables_of_atom(formula.head) \cup
         UNION {variables_of_atom(formula.body[i]) : i \in 1..Len(formula.body)}

complement(lit) == [lit EXCEPT !.neg = ~@]
make_positive(lit) == [lit EXCEPT !.neg = FALSE]

\* unify.bi_unify_atoms: [ok, store, changes]
RECURSIVE bi_unify_args(_, _, _, _, _, _, _)
bi_unify_args(args1, scope1, args2, scope2, i, store, changes) ==
    IF i > Len(args1) THEN [ok |-> TRUE, store |-> store, changes |-> changes]
    ELSE LET a == apply_full(store, args1[i], scope1)
             b == apply_full(store, args2[i], scope2)
         IN  IF is_variable(a.term)
             THEN IF is_variable(b.term) /\ a = b
                  THEN bi_unify_args(args1, scope1, args2, scope2, i + 1, store, changes)
                  ELSE bi_unify_args(args1, scope1, args2, scope2, i + 1,
                          add(store, a.term, a.scope, b.term, b.scope),
                          Append(changes, <<a.term.var, a.scope>>))
             ELSE IF is_variable(b.term)
                  THEN bi_unify_args(args1, scope1, args2, scope2, i + 1,
                          add(store, b.term, b.scope, a.term, a.scope),
                          Append(changes, <<b.term.var, b.scope>>))
                  ELSE IF a.term = b.term
                       THEN bi_unify_args(args1, scope1, args2, scope2, i + 1, store, changes)
                       ELSE [ok |-> FALSE, store |-> undo_all(store, changes),
                             changes |-> <<>>]

bi_unify_atoms(atom1, scope1, atom2, scope2, store) ==
    IF atom1.table # atom2.table \/ Len(atom1.args) # Len(atom2.args)
    THEN [ok |-> FALSE, store |-> store, changes |-> <<>>]
    ELSE bi_unify_args(atom1.args, scope1, atom2.args, scope2, 1, store, <<>>)

\* Database.DBTuple.match: [ok, store, changes]
RECURSIVE match_args(_, _, _, _, _, _)
match_args(tuple, args, scope, i, store, changes) ==
    IF i > Len(args) THEN [ok |-> TRUE, store |-> store, changes |-> changes]
    ELSE LET r == apply_full(store, args[i], scope)
         IN  IF is_variable(r.term)
             THEN match_args(tuple, args, scope, i + 1,
                     add(store, r.term, r.scope, C(tuple[i]), r.scope),
                     Append(changes, <<r.term.var, r.scope>>))
             ELSE IF r.term.val # tuple[i]
                  THEN [ok |-> FALSE, store |-> undo_all(store, changes), changes |-> <<>>]
                  ELSE match_args(tuple, args, scope, i + 1, store, changes)

\* a match that leaves the binding of the atom's first variable in place
\* when it fails
DBTuple_match_keep(dbtuple, atom, scope, store) ==
    LET r == IF Len(dbtuple.tuple) # Len(atom.args)
             THEN [ok |-> FALSE, store |-> store, changes |-> <<>>]
             ELSE match_args(dbtuple.tuple, atom.args, scope, 1, store, <<>>)
        unbound == {i \in 1..Len(atom.args) :
                        is_variable(apply(store, atom.args[i], scope))}
    IN  IF r.ok \/ unbound = {} \/ Len(dbtuple.tuple) # Len(atom.args) THEN r
        ELSE LET i == CHOOSE i \in unbound : \A j \in unbound : i <= j
                 t == apply_full(store, atom.args[i], scope)
             IN  [r EXCEPT !.store = add(store, t.term, t.scope,
                                         C(dbtuple.tuple[i]), t.scope)]

DBTuple_match(dbtuple, atom, scope, store) ==
    IF Len(dbtuple.tuple) # Len(atom.args)
    THEN [ok |-> FALSE, store |-> store, changes |-> <<>>]
    ELSE match_args(dbtuple.tuple, atom.args, scope, 1, store, <<>>)

-----------------------------------------------------------------------------
(* TopDownTheory: the top-down evaluation engine.                           *)
(*   ctx     the chain of TopDownContexts, innermost first; <<>> is None.   *)
(*           A frame is [literals, literal_index, scope, depth] where scope *)
(*           names the frame's binding (a BiUnifier).                       *)
(*   caller  TopDownCaller: [variables, scope, theory, find_all, save];     *)
(*           save is [on, tables] (on = FALSE is save=None).                *)
(*   st      what evaluation mutates: [store, results, support, next,       *)
(*           error]; next is the next unused scope, error is set when an    *)
(*           assertion of the code fails.                                   *)
(* Every operator returns [ok, st]: the code's return value and the state   *)
(* it leaves.                                                               *)

NoSave == [on |-> FALSE, tables |-> {}]

\* TopDownTheory.head_index / Database.head_index / NonrecursiveRuleTheory
head_index(w, self, table) ==
    IF self \in DatabaseObjs
    THEN IF table \in DOMAIN w.data[self] THEN w.data[self][table] ELSE <<>>
    ELSE IF table \in DOMAIN w.contents[self] THEN w.contents[self][table] ELSE <<>>

\* TopDownTheory.body / Database.body
body(self, formula) == IF self \in DatabaseObjs THEN <<>> ELSE formula.body

\* TopDownTheory.bi_unify / Database.bi_unify
bi_unify(self, head, scope1, lit, scope2, store) ==
    IF self \in DatabaseObjs THEN DBTuple_match(head, lit, scope2, store)
    ELSE bi_unify_atoms(head.head, scope1, lit, scope2, store)

TopDownResult(caller, st) ==
    [binding |-> [v \in caller.variables |-> apply(st.store, V(v), caller.scope)],
     support |-> [i \in 1..Len(st.support) |->
                    plug(st.support[i].lit, st.store, st.support[i].scope)]]

\* A method call self.method(...): call dispatches on the method's name, as
\* Python's attribute lookup does; a is the tuple of arguments.
RECURSIVE call(_, _)

top_down_truth(w, self, ctx, caller, st) ==
    call("top_down_includes", <<w, caller.theory, ctx, caller, st>>)

top_down_eval(w, self, ctx, caller, st) ==
    LET context == Head(ctx)
        lit == context.literals[context.literal_index]
    IN  IF st.error THEN [ok |-> FALSE, st |-> st]
        ELSE IF caller.save.on /\ lit.table \in caller.save.tables
        THEN \* abduction: save lit and its binding, then continue
             LET pushed == [st EXCEPT !.support =
                                Append(@, [lit |-> lit, scope |-> context.scope])]
                 r == call("top_down_finish", <<w, self, ctx, caller, pushed>>)
             IN  [ok |-> r.ok,
                  st |-> [r.st EXCEPT !.support = SubSeq(@, 1, Len(@) - 1)]]
        ELSE IF lit.neg
        THEN IF ~is_ground(plug(lit, st.store, context.scope))
             THEN [ok |-> FALSE, st |-> [st EXCEPT !.error = TRUE]]
             ELSE LET new_context == <<[literals |-> <<complement(lit)>>,
                                        literal_index |-> 1,
                                        scope |-> context.scope,
                                        depth |-> context.depth + 1]>>
                      new_caller == [caller EXCEPT !.find_all = FALSE, !.save = NoSave]
                      r == call("top_down_includes",
                                <<w, self, new_context, new_caller,
                                  [st EXCEPT !.results = <<>>, !.support = <<>>]>>)
                      back == [st EXCEPT !.store = r.st.store, !.error = r.st.error]
                  IN  IF r.ok \/ r.st.error THEN [ok |-> FALSE, st |-> back]
                      ELSE call("top_down_finish", <<w, self, ctx, caller, back>>)
        ELSE IF lit.table = "true"
        THEN call("top_down_finish", <<w, self, ctx, caller, st>>)
        ELSE IF lit.table = "false" THEN [ok |-> FALSE, st |-> st]
        ELSE top_down_truth(w, self, ctx, caller, st)

\* the loop of top_down_includes over self.includes, from its i-th member
RECURSIVE top_down_includes_loop(_, _, _, _, _, _)
top_down_includes_loop(w, ths, i, ctx, caller, st) ==
    IF i > Len(ths) THEN [ok |-> FALSE, st |-> st]
    ELSE LET r == call("top_down_includes", <<w, ths[i], ctx, caller, st>>)
         IN  IF r.ok /\ ~caller.find_all THEN [ok |-> TRUE, st |-> r.st]
             ELSE top_down_includes_loop(w, ths, i + 1, ctx, caller, r.st)

\* a top_down_includes that searches the included theories after a success
\* also when find_all is False
top_down_includes_all(w, self, ctx, caller, st) ==
    LET r == call("top_down_th", <<w, self, ctx, caller, st>>)
        rest == top_down_includes_loop(w, w.includes[self], 1, ctx, caller, r.st)
    IN  [ok |-> r.ok \/ rest.ok, st |-> rest.st]

top_down_includes(w, self, ctx, caller, st) ==
    LET r == call("top_down_th", <<w, self, ctx, caller, st>>)
    IN  IF r.ok /\ ~caller.find_all THEN [ok |-> TRUE, st |-> r.st]
        ELSE top_down_includes_loop(w, w.includes[self], 1, ctx, caller, r.st)

\* the loop of top_down_th over head_index(lit.table), from its i-th member
RECURSIVE top_down_th_loop(_, _, _, _, _, _, _)
top_down_th_loop(w, self, rules, i, ctx, caller, st) ==
    IF i > Len(rules) \/ st.error THEN [ok |-> FALSE, st |-> st]
    ELSE LET context == Head(ctx)
             lit == context.literals[context.literal_index]
             rule == rules[i]
             unifier == st.next
             undo == bi_unify(self, rule, unifier, lit, context.scope, st.store)
         IN  IF ~undo.ok
             THEN top_down_th_loop(w, self, rules, i + 1, ctx, caller,
                                   [st EXCEPT !.store = undo.store])
             ELSE LET unified == [st EXCEPT !.store = undo.store, !.next = unifier + 1]
                      r == IF Len(body(self, rule)) = 0
                           THEN call("top_down_finish", <<w, self, ctx, caller, unified>>)
                           ELSE call("top_down_eval",
                                     <<w, self,
                                       <<[literals |-> rule.body, literal_index |-> 1,
                                          scope |-> unifier,
                                          depth |-> context.depth + 1]>> \o ctx,
                                       caller, unified>>)
                      undone == [r.st EXCEPT
                                    !.store = undo_all(@, undo.changes),
                                    !.next = unifier]
                  IN  IF r.ok /\ ~caller.find_all THEN [ok |-> TRUE, st |-> undone]
                      ELSE top_down_th_loop(w, self, rules, i + 1, ctx, caller, undone)

\* TopDownTheory.top_down_th; MaterializedViewTheory overrides it to delegate
\* to its database
top_down_th(w, self, ctx, caller, st) ==
    IF self \in MaterializedObjs
    THEN call("top_down_th", <<w, database(self), ctx, caller, st>>)
    ELSE LET context == Head(ctx)
             lit == context.literals[context.literal_index]
         IN  top_down_th_loop(w, self, head_index(w, self, lit.table), 1,
                              ctx, caller, st)

top_down_finish(w, self, ctx, caller, st) ==
    IF ctx = <<>>
    THEN [ok |-> TRUE,
          st |-> [st EXCEPT !.results = Append(@, TopDownResult(caller, st))]]
    ELSE LET context == Head(ctx)
         IN  IF context.literal_index < Len(context.literals)
             THEN call("top_down_eval",
                       <<w, self,
                         <<[context EXCEPT !.literal_index = @ + 1]>> \o Tail(ctx),
                         caller, st>>)
             ELSE call("top_down_finish", <<w, self, Tail(ctx), caller, st>>)

\* [results, error, store, support]: the TopDownResults, whether an assertion
\* failed, and the store and the caller's support list as the call leaves
\* them; (store, scope) is the binding passed in
top_down_abduction(w, self, vs, literals, store, scope, find_all, save) ==
    LET caller == [variables |-> vs, scope |-> scope, theory |-> self,
                   find_all |-> find_all, save |-> save]
        st == [store |-> store, results |-> <<>>, support |-> <<>>,
               next |-> scope + 2, error |-> FALSE]
        r == IF Len(literals) = 0
             THEN call("top_down_finish", <<w, self, <<>>, caller, st>>)
             ELSE call("top_down_eval",
                       <<w, self,
                         <<[literals |-> literals, literal_index |-> 1,
                            scope |-> scope, depth |-> 0]>>, caller, st>>)
    IN  [results |-> r.st.results, error |-> r.st.error, store |-> r.st.store,
         support |-> r.st.support]

\* [bindings, error]
top_down_evaluation(w, self, vs, literals, store, scope, find_all) ==
    LET r == call("top_down_abduction",
                  <<w, self, vs, literals, store, scope, find_all, NoSave>>)
    IN  [bindings |-> [i \in 1..Len(r.results) |-> r.results[i].binding],
         error |-> r.error]

\* TopDownTheory.select: [results, error]
select(w, self, query, find_all) ==
    LET literals == IF is_atom(query) THEN <<query>> ELSE query.body
        r == call("top_down_evaluation",
                  <<w, self, variables(query), literals, EmptyStore, 0, find_all>>)
    IN  [results |-> [i \in 1..Len(r.bindings) |->
                        IF is_atom(query) THEN plug_dict(query, r.bindings[i])
                        ELSE Rule(plug_dict(query.head, r.bindings[i]),
                                  [j \in 1..Len(query.body) |->
                                      plug_dict(query.body[j], r.bindings[i])])],
         error |-> r.error]

\* an abduce that saves nothing and resolves every literal
abduce_resolving(w, self, query, tablenames, find_all) ==
    LET literals == IF is_atom(query) THEN <<query>> ELSE query.body
        output == IF is_atom(query) THEN query ELSE query.head
        r == call("top_down_abduction",
                  <<w, self, variables(output), literals, EmptyStore, 0, find_all,
                    NoSave>>)
    IN  [results |-> [i \in 1..Len(r.results) |->
                        Rule(plug_dict(output, r.results[i].binding),
                             r.results[i].support)],
         error |-> r.error, support |-> r.support]

\* TopDownTheory.abduce: [results, error, support], support being the
\* caller's support list when the call returns
abduce(w, self, query, tablenames, find_all) ==
    LET literals == IF is_atom(query) THEN <<query>> ELSE query.body
        output == IF is_atom(query) THEN query ELSE query.head
        r == call("top_down_abduction",
                  <<w, self, variables(output), literals, EmptyStore, 0, find_all,
                    [on |-> TRUE, tables |-> tablenames]>>)
    IN  [results |-> [i \in 1..Len(r.results) |->
                        Rule(plug_dict(output, r.results[i].binding),
                             r.results[i].support)],
         error |-> r.error, support |-> r.support]

-----------------------------------------------------------------------------
(* DeltaRuleTheory: dr is [contents, originals, views, all_tables].         *)

DeltaRule(trigger, head, lits, original) ==
    [trigger |-> trigger, head |-> head, body |-> lits, original |-> original]

\* DeltaRule.__eq__ does not compare the originals
DeltaRule_eq(d1, d2) ==
    d1.trigger = d2.trigger /\ d1.head = d2.head /\ d1.body = d2.body

DeltaRule_variables(dlt) ==
    variables_of_atom(dlt.trigger) \cup variables_of_atom(dlt.head) \cup
    UNION {variables_of_atom(dlt.body[i]) : i \in 1..Len(dlt.body)}

DeltaRule_tables(dlt) ==
    {dlt.head.table, dlt.trigger.table} \cup {dlt.body[i].table : i \in 1..Len(dlt.body)}

EmptyDict == [k \in {} |-> 0]

EmptyDelta ==
    [contents |-> EmptyDict, originals |-> {}, views |-> EmptyDict,
     all_tables |-> EmptyDict]

new_table_name(name, arity, index) ==
    "___" \o name \o "_" \o ToString(arity) \o "_" \o ToString(index)

n_variables(n) == [i \in 1..n |-> V("x" \o ToString(i - 1))]

Max(a, b) == IF a >= b THEN a ELSE b

\* the loop over one rule's body: [body, global, order]; global is
\* global_self_joins and order lists its keys as they were added
RECURSIVE eliminate_in_body(_, _, _, _, _)
eliminate_in_body(lits, i, occurrences, global, order) ==
    IF i > Len(lits) THEN [body |-> lits, global |-> global, order |-> order]
    ELSE LET tablearity == <<lits[i].table, Len(lits[i].args)>>
         IN  IF tablearity \notin DOMAIN occurrences
             THEN eliminate_in_body(lits, i + 1, occurrences @@ (tablearity :> 1),
                                    global, order)
             ELSE LET occ == occurrences[tablearity]
                      renamed == [lits EXCEPT ![i].table =
                                    new_table_name(tablearity[1], tablearity[2], occ)]
                  IN  eliminate_in_body(renamed, i + 1,
                          [occurrences EXCEPT ![tablearity] = occ + 1],
                          IF tablearity \notin DOMAIN global
                          THEN global @@ (tablearity :> 1)
                          ELSE [global EXCEPT ![tablearity] = Max(occ, @)],
                          IF tablearity \notin DOMAIN global
                          THEN Append(order, tablearity) ELSE order)

RECURSIVE eliminate_in_formulas(_, _, _, _, _)
eliminate_in_formulas(formulas, i, results, global, order) ==
    IF i > Len(formulas) THEN [results |-> results, global |-> global, order |-> order]
    ELSE IF is_atom(formulas[i])
         THEN eliminate_in_formulas(formulas, i + 1, Append(results, formulas[i]),
                                    global, order)
         ELSE LET r == eliminate_in_body(formulas[i].body, 1, EmptyDict, global, order)
              IN  eliminate_in_formulas(formulas, i + 1,
                      Append(results, Rule(formulas[i].head, r.body)),
                      r.global, r.order)

\* the definitions of the new tables
RECURSIVE new_table_rules(_, _, _)
new_table_rules(global, order, i) ==
    IF i > Len(order) THEN <<>>
    ELSE LET table == order[i][1]
             arity == order[i][2]
         IN  [k \in 1..global[order[i]] |->
                Rule(Atom(new_table_name(table, arity, k), n_variables(arity)),
                     <<Atom(table, n_variables(arity))>>)]
             \o new_table_rules(global, order, i + 1)

\* the renamed rules without the definitions of the new tables
eliminate_self_joins_no_definitions(formulas) ==
    eliminate_in_formulas(formulas, 1, <<>>, EmptyDict, <<>>).results

eliminate_self_joins(formulas) ==
    LET r == eliminate_in_formulas(formulas, 1, <<>>, EmptyDict, <<>>)
    IN  r.results \o new_table_rules(r.global, r.order, 1)

\* delta rules for the positive body literals only
RECURSIVE delta_rules_of_positive(_, _)
delta_rules_of_positive(formulas, i) ==
    IF i > Len(formulas) THEN <<>>
    ELSE LET rule == formulas[i]
             positive == IF is_atom(rule) THEN <<>>
                         ELSE SelectSeq([k \in 1..Len(rule.body) |-> k],
                                        LAMBDA k : ~rule.body[k].neg)
         IN  [k \in 1..Len(positive) |->
                DeltaRule(rule.body[positive[k]], rule.head,
                          RemoveAt(rule.body, positive[k]), rule)]
             \o delta_rules_of_positive(formulas, i + 1)

RECURSIVE delta_rules_of(_, _)
delta_rules_of(formulas, i) ==
    IF i > Len(formulas) THEN <<>>
    ELSE LET rule == formulas[i]
         IN  (IF is_atom(rule) THEN <<>>
              ELSE [k \in 1..Len(rule.body) |->
                      DeltaRule(rule.body[k], rule.head, RemoveAt(rule.body, k), rule)])
             \o delta_rules_of(formulas, i + 1)

compute_delta_rules(formulas) == delta_rules_of(eliminate_self_joins(formulas), 1)

Incr(dict, key) ==
    IF key \in DOMAIN dict THEN [dict EXCEPT ![key] = @ + 1] ELSE dict @@ (key :> 1)

\* decrement, deleting the key at 0; an absent key is left alone
Decr(dict, key) ==
    IF key \notin DOMAIN dict THEN dict
    ELSE IF dict[key] = 1 THEN [k \in (DOMAIN dict) \ {key} |-> dict[k]]
    ELSE [dict EXCEPT ![key] = @ - 1]

RECURSIVE FoldSet(_, _, _)
FoldSet(F(_, _), acc, set) ==
    IF set = {} THEN acc
    ELSE LET x == CHOOSE y \in set : TRUE
         IN  FoldSet(F, F(acc, x), set \ {x})

insert_delta(dr, dlt) ==
    [dr EXCEPT
        !.views = Incr(@, dlt.head.table),
        !.all_tables = FoldSet(Incr, @, DeltaRule_tables(dlt)),
        !.contents = IF dlt.trigger.table \notin DOMAIN @
                     THEN @ @@ (dlt.trigger.table :> <<dlt>>)
                     ELSE [@ EXCEPT ![dlt.trigger.table] = Append(@, dlt)]]

\* list.remove: drop the first element equal to dlt
FirstDelta(rows, dlt) ==
    CHOOSE i \in 1..Len(rows) :
        /\ DeltaRule_eq(rows[i], dlt)
        /\ \A j \in 1..(i - 1) : ~DeltaRule_eq(rows[j], dlt)

\* a delete_delta that leaves the views counter alone
delete_delta_keep_views(dr, dlt) ==
    [dr EXCEPT
        !.all_tables = FoldSet(Decr, @, DeltaRule_tables(dlt)),
        !.contents = IF dlt.trigger.table \notin DOMAIN @ THEN @
                     ELSE [@ EXCEPT ![dlt.trigger.table] =
                                RemoveAt(@, FirstDelta(@, dlt))]]

delete_delta(dr, dlt) ==
    [dr EXCEPT
        !.views = Decr(@, dlt.head.table),
        !.all_tables = FoldSet(Decr, @, DeltaRule_tables(dlt)),
        !.contents = IF dlt.trigger.table \notin DOMAIN @ THEN @
                     ELSE [@ EXCEPT ![dlt.trigger.table] =
                                RemoveAt(@, FirstDelta(@, dlt))]]

RECURSIVE FoldSeq(_, _, _, _)
FoldSeq(F(_, _), acc, seq, i) ==
    IF i > Len(seq) THEN acc ELSE FoldSeq(F, F(acc, seq[i]), seq, i + 1)

\* [dr, changed].  eliminate_self_joins, run by compute_delta_rules, renames
\* the atoms of the rule object it is given, so the object added to originals
\* is the rule as renamed (the rule itself when its body has no self-join)
DeltaRuleTheory_insert(dr, rule) ==
    IF rule \in dr.originals THEN [dr |-> dr, changed |-> FALSE]
    ELSE [dr |-> [FoldSeq(insert_delta, dr, compute_delta_rules(<<rule>>), 1)
                    EXCEPT !.originals = @ \cup {eliminate_self_joins(<<rule>>)[1]}],
          changed |-> TRUE]

DeltaRuleTheory_delete(dr, rule) ==
    IF rule \notin dr.originals THEN [dr |-> dr, changed |-> FALSE]
    ELSE [dr |-> [FoldSeq(delete_delta, dr, compute_delta_rules(<<rule>>), 1)
                    EXCEPT !.originals = @ \ {rule}],
          changed |-> TRUE]

\* [dr, changes]
DeltaRuleTheory_modify(dr, rule, is_insert) ==
    LET Changed(r) ==
            [dr |-> r.dr,
             changes |-> IF r.changed THEN <<eliminate_self_joins(<<rule>>)[1]>>
                         ELSE <<>>]
    IN  Changed(IF is_insert THEN DeltaRuleTheory_insert(dr, rule)
                ELSE DeltaRuleTheory_delete(dr, rule))

rules_with_trigger(dr, table) ==
    IF table \notin DOMAIN dr.contents THEN <<>> ELSE dr.contents[table]

is_view(dr, x) == x \in DOMAIN dr.views

base_tables(dr) == (DOMAIN dr.all_tables) \ (DOMAIN dr.views)

-----------------------------------------------------------------------------
(* MaterializedViewTheory.                                                  *)

Proof(binding, rule) == [binding |-> binding, rule |-> rule]

\* the atoms generated by bindings[1..i-1], each once, in order of appearance
RECURSIVE new_atoms_of(_, _, _, _)
new_atoms_of(bindings, atom, i, acc) ==
    IF i > Len(bindings) THEN acc
    ELSE LET new_atom == plug_dict(atom, bindings[i])
         IN  new_atoms_of(bindings, atom, i + 1,
                IF \E k \in 1..Len(acc) : acc[k] = new_atom THEN acc
                ELSE Append(acc, new_atom))

\* the Events process_new_bindings enqueues
process_new_bindings(bindings, atom, insert, original_rule) ==
    LET new_atoms == new_atoms_of(bindings, atom, 1, <<>>)
        proofs_of(new_atom) ==
            LET mine == SelectSeq(bindings, LAMBDA b : plug_dict(atom, b) = new_atom)
            IN  [k \in 1..Len(mine) |-> Proof(mine[k], original_rule)]
    IN  [k \in 1..Len(new_atoms) |-> Event(new_atoms[k], insert, proofs_of(new_atoms[k]))]

\* a propagate_rule that generates no event
propagate_rule_skip(w, th, event, delta_rule) ==
    [events |-> <<>>, error |-> FALSE]

\* a propagate_rule that ignores the polarity of the trigger
propagate_rule_same_polarity(w, th, event, delta_rule) ==
    LET Evaluated(r) ==
            IF r.error THEN [events |-> <<>>, error |-> TRUE]
            ELSE [events |-> process_new_bindings(r.bindings, delta_rule.head,
                                event.insert, delta_rule.original),
                  error |-> FALSE]
        Unified(undo) ==
            IF ~undo.ok THEN [events |-> <<>>, error |-> FALSE]
            ELSE Evaluated(call("top_down_evaluation",
                                <<w, th, DeltaRule_variables(delta_rule),
                                  delta_rule.body, undo.store, 0, TRUE>>))
    IN  Unified(bi_unify_atoms(delta_rule.trigger, 0, event.formula, 1, EmptyStore))

\* the Events propagate_rule enqueues: [events, error]
propagate_rule(w, th, event, delta_rule) ==
    LET insert_delete == IF delta_rule.trigger.neg THEN ~event.insert
                         ELSE event.insert
        Evaluated(r) ==
            IF r.error THEN [events |-> <<>>, error |-> TRUE]
            ELSE [events |-> process_new_bindings(r.bindings, delta_rule.head,
                                insert_delete, delta_rule.original),
                  error |-> FALSE]
        Unified(undo) ==
            IF ~undo.ok THEN [events |-> <<>>, error |-> FALSE]
            ELSE Evaluated(call("top_down_evaluation",
                                <<w, th, DeltaRule_variables(delta_rule),
                                  delta_rule.body, undo.store, 0, TRUE>>))
    IN  Unified(bi_unify_atoms(delta_rule.trigger, 0, event.formula, 1, EmptyStore))

\* the loop of propagate over the applicable rules: [events, error]
RECURSIVE propagate_loop(_, _, _, _, _)
propagate_loop(w, th, event, applicable_rules, i) ==
    LET Rest(r, rest) == [events |-> r.events \o rest.events, error |-> rest.error]
        Propagated(r) ==
            IF r.error THEN r
            ELSE Rest(r, propagate_loop(w, th, event, applicable_rules, i + 1))
    IN  IF i > Len(applicable_rules) THEN [events |-> <<>>, error |-> FALSE]
        ELSE Propagated(propagate_rule(w, th, event, applicable_rules[i]))

\* a propagate that stops after the first applicable rule
propagate_first_rule(w, th, event) ==
    LET First(rules) == IF rules = <<>> THEN rules ELSE <<Head(rules)>>
    IN  propagate_loop(w, th, event,
                       First(rules_with_trigger(w.delta[th], event.formula.table)), 1)

\* [events, error]
propagate(w, th, event) ==
    propagate_loop(w, th, event,
                   rules_with_trigger(w.delta[th], event.formula.table), 1)

\* one iteration of process_queue's loop on the dequeued event:
\* [w, changes, error]
process_event(w, th, event) ==
    LET RuleDone(r) ==
            [w |-> [w EXCEPT !.delta[th] = r.dr], changes |-> r.changes,
             error |-> FALSE]
        Written(enqueued, m) ==
            [w |-> [enqueued EXCEPT !.data[database(th)] = m.data],
             changes |-> m.changes, error |-> FALSE]
        Propagated(p, enqueued) ==
            IF p.error THEN [w |-> enqueued, changes |-> <<>>, error |-> TRUE]
            ELSE Written(enqueued,
                         Database_modify(w.data[database(th)], event.formula,
                                         event.insert, event.proofs))
        Enqueue(p) == Propagated(p, [w EXCEPT !.queue[th] = @ \o p.events])
    IN  IF ~is_atom(event.formula)
        THEN RuleDone(DeltaRuleTheory_modify(w.delta[th], event.formula, event.insert))
        ELSE Enqueue(propagate(w, th, event))

\* [w, changes, error]
RECURSIVE process_queue(_, _, _)
process_queue(w, th, history) ==
    LET Processed(r) ==
            IF r.error THEN [w |-> r.w, changes |-> <<>>, error |-> TRUE]
            ELSE process_queue(r.w, th, history \o r.changes)
    IN  IF Len(w.queue[th]) = 0 THEN [w |-> w, changes |-> history, error |-> FALSE]
        ELSE Processed(process_event([w EXCEPT !.queue[th] = Tail(@)], th,
                                     Head(w.queue[th])))

\* theory.modify for a member of an includes list: [w, changes, error]
Theory_modify(w, theory, formula, is_insert) ==
    LET Modified(m) ==
            [w |-> [w EXCEPT !.data[theory] = m.data], changes |-> m.changes,
             error |-> FALSE]
    IN  IF theory \in DatabaseObjs
        THEN Modified(Database_modify(w.data[theory], formula, is_insert, <<>>))
        ELSE call("MaterializedViewTheory_modify", <<w, theory, formula, is_insert>>)

\* the loop over self.includes for an atom: [w, error]
RECURSIVE enqueue_included_loop(_, _, _, _, _)
enqueue_included_loop(w, th, formula, is_insert, i) ==
    LET Included(r) ==
            IF r.error THEN [w |-> r.w, error |-> TRUE]
            ELSE enqueue_included_loop([r.w EXCEPT !.queue[th] = @ \o r.changes],
                                       th, formula, is_insert, i + 1)
    IN  IF i > Len(w.includes[th]) THEN [w |-> w, error |-> FALSE]
        ELSE Included(Theory_modify(w, w.includes[th][i], formula, is_insert))

\* the loop over eliminate_self_joins([formula]) for a rule: [w, error]
RECURSIVE enqueue_rules_loop(_, _, _, _, _)
enqueue_rules_loop(w, th, rules, is_insert, i) ==
    LET Enqueued(rule, event, data_events) ==
            enqueue_rules_loop(
                [w EXCEPT !.queue[th] =
                    IF is_insert THEN (@ \o <<event>>) \o data_events
                    ELSE (@ \o data_events) \o <<event>>],
                th, rules, is_insert, i + 1)
        Evaluated(rule, r) ==
            IF r.error THEN [w |-> w, error |-> TRUE]
            ELSE Enqueued(rule, Event(rule, is_insert, <<>>),
                          process_new_bindings(r.bindings, rule.head, is_insert, rule))
    IN  IF i > Len(rules) THEN [w |-> w, error |-> FALSE]
        ELSE Evaluated(rules[i],
                       call("top_down_evaluation",
                            <<w, th, variables(rules[i]), rules[i].body,
                              EmptyStore, 0, TRUE>>))

\* the view check made after the included theories have been told: [w, error]
enqueue_with_included_late_check(w, th, formula, is_insert) ==
    IF is_atom(formula)
    THEN LET Told(r) == IF is_view(w.delta[th], formula.table)
                        THEN [w |-> r.w, error |-> TRUE] ELSE r
         IN  Told(enqueue_included_loop(w, th, formula, is_insert, 1))
    ELSE enqueue_rules_loop(w, th, eliminate_self_joins(<<formula>>), is_insert, 1)

\* [w, error]
enqueue_with_included(w, th, formula, is_insert) ==
    IF is_atom(formula)
    THEN IF is_view(w.delta[th], formula.table) THEN [w |-> w, error |-> TRUE]
         ELSE enqueue_included_loop(w, th, formula, is_insert, 1)
    ELSE enqueue_rules_loop(w, th, eliminate_self_joins(<<formula>>), is_insert, 1)

\* a modify whose process_queue returns after the first event
MaterializedViewTheory_modify_one_event(w, th, formula, is_insert) ==
    LET Processed(r) ==
            IF r.error THEN [w |-> r.w, changes |-> <<>>, error |-> TRUE] ELSE r
        Enqueued(e) ==
            IF e.error THEN [w |-> e.w, changes |-> <<>>, error |-> TRUE]
            ELSE IF Len(e.w.queue[th]) = 0
            THEN [w |-> e.w, changes |-> <<>>, error |-> FALSE]
            ELSE Processed(process_event([e.w EXCEPT !.queue[th] = Tail(@)], th,
                                         Head(e.w.queue[th])))
    IN  Enqueued(enqueue_with_included(w, th, formula, is_insert))

\* MaterializedViewTheory.modify (insert and delete delegate to it):
\* [w, changes, error]
MaterializedViewTheory_modify(w, th, formula, is_insert) ==
    LET Enqueued(e) ==
            IF e.error THEN [w |-> e.w, changes |-> <<>>, error |-> TRUE]
            ELSE process_queue(e.w, th, <<>>)
    IN  Enqueued(enqueue_with_included(w, th, formula, is_insert))

\* Python's None, and a value that is not None
None == [none |-> TRUE]
Some(value) == [none |-> FALSE, value |-> value]

\* Proof: a proof tree
ProofTree(root, children) == [root |-> root, children |-> children]

\* Database.explain: the ProofCollection of the stored tuple, the empty
\* collection for an unknown table or an unground atom, None when the table
\* holds no such tuple
Database_explain(db, atom) ==
    IF atom.table \notin DOMAIN db \/ ~is_ground(atom) THEN Some(<<>>)
    ELSE LET rows == db[atom.table]
             found == {i \in 1..Len(rows) : rows[i].tuple = argument_names(atom)}
         IN  IF found = {} THEN None
             ELSE Some(rows[CHOOSE i \in found : \A j \in found : i <= j].proofs)

\* Rule.plug with a dictionary binding
plug_rule(rule, binding) ==
    Rule(plug_dict(rule.head, binding),
         [i \in 1..Len(rule.body) |-> plug_dict(rule.body[i], binding)])

\* MaterializedViewTheory.explain_aux: None or a proof tree
RECURSIVE explain_aux(_, _, _, _)
explain_aux(w, th, query, depth) ==
    LET localproofs == Database_explain(w.data[database(th)], query)
        \* the loop over rule_instance.body
        Subproofs(lits) ==
            LET subs == [i \in 1..Len(lits) |-> explain_aux(w, th, lits[i], depth + 1)]
                failed == {i \in 1..Len(lits) : subs[i].none}
            IN  IF failed # {} THEN None
                ELSE Some(ProofTree(query, [i \in 1..Len(lits) |-> subs[i].value]))
    IN  IF query.neg THEN Some(ProofTree(query, <<>>))
        ELSE IF localproofs.none THEN None
        ELSE IF Len(localproofs.value) = 0 THEN Some(ProofTree(query, <<>>))
        ELSE Subproofs(plug_rule(localproofs.value[1].rule,
                                 localproofs.value[1].binding).body)

\* MaterializedViewTheory.explain: None or a list of one proof
MaterializedViewTheory_explain(w, th, query) ==
    LET proof == explain_aux(w, th, query, 0)
    IN  IF proof.none THEN None ELSE Some(<<proof.value>>)

-----------------------------------------------------------------------------
(* NonrecursiveRuleTheory: c is NonrecursiveRuleTheory.contents.            *)

as_rule(formula) == IF is_atom(formula) THEN Rule(formula, <<>>) ELSE formula

RuleIn(rule, rules) == \E i \in 1..Len(rules) : rules[i] = rule

\* an insert that does not look for the rule in the list
NonrecursiveRuleTheory_insert_append(c, formula) ==
    LET rule == as_rule(formula)
        table == rule.head.table
    IN  IF table \in DOMAIN c
        THEN [contents |-> [c EXCEPT ![table] = Append(@, rule)], changes |-> <<rule>>]
        ELSE [contents |-> c @@ (table :> <<rule>>), changes |-> <<rule>>]

\* [contents, changes]
NonrecursiveRuleTheory_insert(c, formula) ==
    LET rule == as_rule(formula)
        table == rule.head.table
    IN  IF table \in DOMAIN c
        THEN IF ~RuleIn(rule, c[table])
             THEN [contents |-> [c EXCEPT ![table] = Append(@, rule)],
                   changes |-> <<rule>>]
             ELSE [contents |-> c, changes |-> <<>>]
        ELSE [contents |-> c @@ (table :> <<rule>>), changes |-> <<rule>>]

NonrecursiveRuleTheory_delete(c, formula) ==
    LET rule == as_rule(formula)
        table == rule.head.table
    IN  IF table \in DOMAIN c /\ RuleIn(rule, c[table])
        THEN [contents |-> [c EXCEPT ![table] =
                    RemoveAt(@, CHOOSE i \in 1..Len(@) :
                                    /\ @[i] = rule
                                    /\ \A j \in 1..(i - 1) : @[j] # rule)],
              changes |-> <<rule>>]
        ELSE [contents |-> c, changes |-> <<>>]

-----------------------------------------------------------------------------
(* Runtime. *)

\* Runtime.__init__
InitWorld ==
    [data |-> [o \in DatabaseObjs |-> EmptyDict],
     delta |-> [th \in MaterializedObjs |-> EmptyDelta],
     queue |-> [th \in MaterializedObjs |-> <<>>],
     contents |-> [o \in NonrecursiveObjs |-> EmptyDict],
     includes |-> [o \in DatabaseObjs \cup MaterializedObjs \cup NonrecursiveObjs |->
                    CASE o = "Clas" -> <<"DB">>
                      [] o = "Enfor" -> <<"Clas">>
                      [] o = "Act" -> <<"Clas">>
                      [] OTHER -> <<>>],
     logger |-> <<>>]

World ==
    [data |-> data, delta |-> delta, queue |-> queue, contents |-> contents,
     includes |-> includes, logger |-> logger]

SetWorld(w) ==
    /\ data' = w.data
    /\ delta' = w.delta
    /\ queue' = w.queue
    /\ contents' = w.contents
    /\ includes' = w.includes
    /\ logger' = w.logger

\* Runtime.get_target: None is CLASSIFY_THEORY
get_target(name) == IF name = "None" THEN "Clas" ELSE name

\* [names, error]
get_action_names(w) ==
    LET r == call("select", <<w, "Act", Atom("action", <<V("x")>>), TRUE>>)
    IN  [names |-> [i \in 1..Len(r.results) |-> r.results[i].args[1].val],
         error |-> r.error]

\* routing that keeps every formula on its declared target
compute_route_declared(formula, theory) == theory

compute_route(formula, theory) ==
    IF is_atom(formula) /\ theory \in {"Clas", "DB"} THEN "Enfor" ELSE theory

is_event(change) == "insert" \in DOMAIN change

InSeq(x, seq) == \E i \in 1..Len(seq) : seq[i] = x

\* [w, error]
execute_obj(w, actions) ==
    LET names == call("get_action_names", <<w>>)
    IN  IF \/ \E i \in 1..Len(actions) : ~(is_atom(actions[i]) /\ is_ground(actions[i]))
           \/ names.error
           \/ \E i \in 1..Len(actions) : ~InSeq(actions[i].table, names.names)
        THEN [w |-> w, error |-> TRUE]
        ELSE [w |-> [w EXCEPT !.logger = @ \o actions], error |-> FALSE]

\* reacting to delete events as well: [w, error]
react_to_changes_any_event(w, changes) ==
    LET names == call("get_action_names", <<w>>)
        formulas == LET hits == SelectSeq(changes, LAMBDA change :
                                    /\ is_event(change)
                                    /\ is_atom(change.formula)
                                    /\ InSeq(change.formula.table, names.names))
                    IN  [i \in 1..Len(hits) |-> hits[i].formula]
    IN  IF names.error THEN [w |-> w, error |-> TRUE]
        ELSE call("execute_obj", <<w, formulas>>)

\* [w, error]
react_to_changes(w, changes) ==
    LET names == call("get_action_names", <<w>>)
        formulas == LET hits == SelectSeq(changes, LAMBDA change :
                                    /\ is_event(change)
                                    /\ change.insert
                                    /\ is_atom(change.formula)
                                    /\ InSeq(change.formula.table, names.names))
                    IN  [i \in 1..Len(hits) |-> hits[i].formula]
    IN  IF names.error THEN [w |-> w, error |-> TRUE]
        ELSE call("execute_obj", <<w, formulas>>)

\* theory.insert / theory.delete of the registered theories: [w, changes, error]
Theory_update(w, theory, formula, is_insert) ==
    IF theory \in MaterializedObjs
    THEN call("MaterializedViewTheory_modify", <<w, theory, formula, is_insert>>)
    ELSE IF theory \in NonrecursiveObjs
    THEN LET r == IF is_insert THEN NonrecursiveRuleTheory_insert(w.contents[theory], formula)
                  ELSE NonrecursiveRuleTheory_delete(w.contents[theory], formula)
         IN  [w |-> [w EXCEPT !.contents[theory] = r.contents], changes |-> r.changes,
              error |-> FALSE]
    ELSE \* Database.insert/delete take an Atom and return None
         IF ~is_atom(formula) THEN [w |-> w, changes |-> <<>>, error |-> TRUE]
         ELSE [w |-> [w EXCEPT !.data[theory] =
                        IF is_insert THEN Database_insert(@, formula, <<>>)
                        ELSE Database_delete(@, formula, <<>>)],
               changes |-> <<>>, error |-> TRUE]

\* Runtime.insert_obj / delete_obj: [w, changes, error]
modify_obj(w, formula, theory, is_insert) ==
    LET routed == compute_route(formula, theory)
        r == call("Theory_update", <<w, routed, formula, is_insert>>)
        e == call("react_to_changes", <<r.w, r.changes>>)
    IN  IF r.error THEN r
        ELSE [w |-> e.w, changes |-> r.changes, error |-> e.error]

insert_obj(w, formula, theory) == modify_obj(w, formula, theory, TRUE)
delete_obj(w, formula, theory) == modify_obj(w, formula, theory, FALSE)

\* the structural set of a list of formulas
AsSet(seq) == {seq[i] : i \in 1..Len(seq)}

\* the elements of a set in the order a loop visits them (one fixed order)
RECURSIVE SetToSeq(_)
SetToSeq(set) ==
    IF set = {} THEN <<>>
    ELSE LET first == CHOOSE e \in set : TRUE
         IN  <<first>> \o SetToSeq(set \ {first})

\* str.endswith
endswith(name, suffix) ==
    /\ Len(name) >= Len(suffix)
    /\ SubSeq(name, Len(name) - Len(suffix) + 1, Len(name)) = suffix

\* compile.is_update
is_update(table) == endswith(table, "+") \/ endswith(table, "-")

\* compile.is_result
is_result(table) == table = "result"

WithTable(formula, name) ==
    IF is_atom(formula) THEN [formula EXCEPT !.table = name]
    ELSE [formula EXCEPT !.head.table = name]

\* Atom.drop_update / Rule.drop_update: strip the + or - of the head table
drop_update(formula) ==
    LET name == tablename(formula)
    IN  IF is_update(name) THEN WithTable(formula, SubSeq(name, 1, Len(name) - 1))
        ELSE formula

\* Atom.invert_update / Rule.invert_update: swap + and -
invert_update(formula) ==
    LET name == tablename(formula)
        stem == SubSeq(name, 1, Len(name) - 1)
    IN  IF endswith(name, "+") THEN WithTable(formula, stem \o "-")
        ELSE IF endswith(name, "-") THEN WithTable(formula, stem \o "+")
        ELSE formula

\* a resolve_conflicts that adds every atom of NEG back
resolve_conflicts_keep_neg(atoms) == atoms

\* Runtime.resolve_conflicts on a set of atoms
resolve_conflicts(atoms) ==
    LET neg == {atom \in atoms : ~endswith(atom.table, "+") /\ endswith(atom.table, "-")}
        result == atoms \ neg
    IN  result \cup {atom \in neg : invert_update(atom) \notin result}

\* unify.skolemize: every variable becomes a constant of its own
skolemize(atoms) ==
    {[atom EXCEPT !.args = [i \in 1..Len(atom.args) |->
                              IF is_variable(atom.args[i])
                              THEN C("sk_" \o atom.args[i].var) ELSE atom.args[i]]]
       : atom \in atoms}

\* NonrecursiveRuleTheory.define: the contents after empty() and the inserts
RECURSIVE define(_, _, _)
define(c, rules, i) ==
    IF i > Len(rules) THEN c
    ELSE define(NonrecursiveRuleTheory_insert(c, rules[i]).contents, rules, i + 1)

\* TopDownTheory.consequences on a NonrecursiveRuleTheory: [atoms, error]
RECURSIVE consequences_loop(_, _, _, _)
consequences_loop(w, self, table_names, i) ==
    LET Joined(r, rest) ==
            [atoms |-> AsSet(r.results) \cup rest.atoms,
             error |-> r.error \/ rest.error]
        Query(table, arity) ==
            Joined(call("select", <<w, self, Atom(table, n_variables(arity)), TRUE>>),
                   consequences_loop(w, self, table_names, i + 1))
    IN  IF i > Len(table_names) THEN [atoms |-> {}, error |-> FALSE]
        ELSE Query(table_names[i],
                   Len(head_index(w, self, table_names[i])[1].head.args))

consequences(w, self, is_update_filter) ==
    consequences_loop(w, self,
        SetToSeq({t \in DOMAIN w.contents[self] :
                    IF is_update_filter THEN is_update(t) ELSE is_result(t)}), 1)

\* an update_classifier that inserts whatever the sign of the update
update_classifier_insert_only(w, update) ==
    LET newdelta == drop_update(update)
        r == call("MaterializedViewTheory_modify", <<w, "Clas", newdelta, TRUE>>)
    IN  [w |-> r.w,
         undo |-> IF ~r.error /\ Len(r.changes) > 0 THEN <<invert_update(update)>>
                  ELSE <<>>,
         error |-> r.error]

\* Runtime.update_classifier: [w, undo, error]; undo is <<>> for None
update_classifier(w, update) ==
    LET isinsert == endswith(tablename(update), "+")
        newdelta == drop_update(update)
        r == call("MaterializedViewTheory_modify", <<w, "Clas", newdelta, isinsert>>)
    IN  [w |-> r.w,
         undo |-> IF ~r.error /\ Len(r.changes) > 0 THEN <<invert_update(update)>>
                  ELSE <<>>,
         error |-> r.error]

\* the loop "for update in updates": [w, undos, error]
RECURSIVE apply_updates(_, _, _)
apply_updates(w, updates, i) ==
    LET Rest(r, rest) ==
            [w |-> rest.w, undos |-> r.undo \o rest.undos, error |-> rest.error]
        Updated(r) ==
            IF r.error THEN [w |-> r.w, undos |-> <<>>, error |-> TRUE]
            ELSE Rest(r, apply_updates(r.w, updates, i + 1))
    IN  IF i > Len(updates) THEN [w |-> w, undos |-> <<>>, error |-> FALSE]
        ELSE Updated(call("update_classifier", <<w, updates[i]>>))

\* the branch of project's loop for a formula whose table is an action:
\* [w, updates, last_results, error]
project_action(w, formula, last_results) ==
    LET Stop(w1, failed) ==
            [w |-> w1, updates |-> <<>>, last_results |-> last_results,
             error |-> failed]
        Results(inserted, updates, results) ==
            [w |-> inserted, updates |-> updates,
             last_results |-> SetToSeq({atom \in results.atoms : is_ground(atom)}),
             error |-> results.error]
        Inserted(inserted, updates) ==
            Results(inserted, updates, consequences(inserted, "Act", FALSE))
        Updates(extended, updates) ==
            Inserted([extended EXCEPT !.contents["Temp"] = define(@, updates, 1)],
                     updates)
        Found(extended, found) ==
            IF found.error THEN Stop(extended, TRUE)
            ELSE Updates(extended, SetToSeq(skolemize(resolve_conflicts(found.atoms))))
        Extended(extended) == Found(extended, consequences(extended, "Act", TRUE))
        Grounds(defined, grounds) ==
            IF \E k \in 1..Len(grounds) : grounds[k].neg THEN Stop(defined, TRUE)
            ELSE Extended([defined EXCEPT !.contents["Temp"] =
                                define(EmptyDict, grounds, 1)])
        Evaluated(defined, r) ==
            IF r.error THEN Stop(defined, TRUE)
            ELSE IF Len(r.bindings) = 0 THEN Stop(defined, FALSE)
            ELSE Grounds(defined,
                         SelectSeq(<<plug_dict(formula.head, r.bindings[1])>>,
                                   is_ground))
        Defined(defined) ==
            Evaluated(defined,
                      call("top_down_evaluation",
                           <<defined, "Act", variables(formula), formula.body,
                             EmptyStore, 0, FALSE>>))
    IN  IF is_atom(formula)
        THEN IF ~is_ground(formula) \/ formula.neg THEN Stop(w, TRUE)
             ELSE Extended([w EXCEPT !.contents["Temp"] =
                                define(EmptyDict, <<formula>>, 1)])
        ELSE Defined([w EXCEPT !.contents["Temp"] =
                        define(EmptyDict, last_results, 1)])

\* project's loop over sequence from its i-th formula: [w, undos, error];
\* undos is in the order the updates were applied
RECURSIVE project_loop(_, _, _, _, _)
project_loop(w, actions, sequence, i, last_results) ==
    LET Rest(applied, rest) ==
            [w |-> rest.w, undos |-> applied.undos \o rest.undos,
             error |-> rest.error]
        Applied(acts, applied) ==
            IF applied.error THEN [w |-> applied.w, undos |-> <<>>, error |-> TRUE]
            ELSE Rest(applied,
                      project_loop(applied.w, actions, sequence, i + 1,
                                   acts.last_results))
        Updates(acts) ==
            IF acts.error THEN [w |-> acts.w, undos |-> <<>>, error |-> TRUE]
            ELSE Applied(acts, apply_updates(acts.w, acts.updates, 1))
    IN  IF i > Len(sequence) THEN [w |-> w, undos |-> <<>>, error |-> FALSE]
        ELSE IF InSeq(tablename(sequence[i]), actions)
        THEN Updates(project_action(w, sequence[i], last_results))
        ELSE Updates([w |-> w, updates |-> <<sequence[i]>>,
                      last_results |-> last_results, error |-> FALSE])

Reverse(seq) == [i \in 1..Len(seq) |-> seq[Len(seq) + 1 - i]]

\* a project that returns the undos in the order the updates were applied
project_unreversed(w, sequence) ==
    LET Done(r) ==
            IF r.error THEN [w |-> r.w, undos |-> <<>>, error |-> TRUE]
            ELSE [w |-> [r.w EXCEPT !.includes["Act"] =
                                        SelectSeq(@, LAMBDA th : th # "Temp"),
                                    !.contents["Temp"] = EmptyDict],
                  undos |-> r.undos, error |-> FALSE]
        Names(start, names) ==
            IF names.error THEN [w |-> start, undos |-> <<>>, error |-> TRUE]
            ELSE Done(project_loop(start, names.names, sequence, 1, <<>>))
        Start(start) == Names(start, call("get_action_names", <<start>>))
    IN  Start([w EXCEPT !.includes["Act"] = Append(@, "Temp"),
                        !.contents["Temp"] = EmptyDict])

\* Runtime.project: [w, undos, error].  The scratch theory "Temp" is a new
\* object for each call and is dropped when the call returns.
project(w, sequence) ==
    LET Done(r) ==
            IF r.error THEN [w |-> r.w, undos |-> <<>>, error |-> TRUE]
            ELSE [w |-> [r.w EXCEPT !.includes["Act"] =
                                        SelectSeq(@, LAMBDA th : th # "Temp"),
                                    !.contents["Temp"] = EmptyDict],
                  undos |-> Reverse(r.undos), error |-> FALSE]
        Names(start, names) ==
            IF names.error THEN [w |-> start, undos |-> <<>>, error |-> TRUE]
            ELSE Done(project_loop(start, names.names, sequence, 1, <<>>))
        Start(start) == Names(start, call("get_action_names", <<start>>))
    IN  Start([w EXCEPT !.includes["Act"] = Append(@, "Temp"),
                        !.contents["Temp"] = EmptyDict])

\* Runtime.simulate_obj: [w, result, error]
simulate_obj(w, query, sequence) ==
    LET Back(result, back) ==
            [w |-> back.w, result |-> result.results, error |-> back.error]
        Result(undo, result) ==
            IF result.error THEN [w |-> undo.w, result |-> <<>>, error |-> TRUE]
            ELSE Back(result, call("project", <<undo.w, undo.undos>>))
        Undo(undo) ==
            IF undo.error THEN [w |-> undo.w, result |-> <<>>, error |-> TRUE]
            ELSE Result(undo, call("select", <<undo.w, "Clas", query, TRUE>>))
    IN  Undo(call("project", <<w, sequence>>))

\* the methods call dispatches to
call(method, a) ==
    CASE method = "top_down_eval" -> top_down_eval(a[1], a[2], a[3], a[4], a[5])
      [] method = "top_down_includes" -> top_down_includes(a[1], a[2], a[3], a[4], a[5])
      [] method = "top_down_th" -> top_down_th(a[1], a[2], a[3], a[4], a[5])
      [] method = "top_down_finish" -> top_down_finish(a[1], a[2], a[3], a[4], a[5])
      [] method = "top_down_abduction" ->
            top_down_abduction(a[1], a[2], a[3], a[4], a[5], a[6], a[7], a[8])
      [] method = "top_down_evaluation" ->
            top_down_evaluation(a[1], a[2], a[3], a[4], a[5], a[6], a[7])
      [] method = "select" -> select(a[1], a[2], a[3], a[4])
      [] method = "abduce" -> abduce(a[1], a[2], a[3], a[4], a[5])
      [] method = "MaterializedViewTheory_modify" ->
            MaterializedViewTheory_modify(a[1], a[2], a[3], a[4])
      [] method = "Theory_update" -> Theory_update(a[1], a[2], a[3], a[4])
      [] method = "get_action_names" -> get_action_names(a[1])
      [] method = "execute_obj" -> execute_obj(a[1], a[2])
      [] method = "react_to_changes" -> react_to_changes(a[1], a[2])
      [] method = "insert_obj" -> insert_obj(a[1], a[2], a[3])
      [] method = "delete_obj" -> delete_obj(a[1], a[2], a[3])
      [] method = "update_classifier" -> update_classifier(a[1], a[2])
      [] method = "project" -> project(a[1], a[2])
      [] method = "simulate_obj" -> simulate_obj(a[1], a[2], a[3])

-----------------------------------------------------------------------------
(* Initial state: a freshly constructed Runtime. *)

Init ==
    /\ data = InitWorld.data
    /\ delta = InitWorld.delta
    /\ queue = InitWorld.queue
    /\ contents = InitWorld.contents
    /\ includes = InitWorld.includes
    /\ logger = InitWorld.logger
    /\ pc = "idle"
    /\ ret = <<>>
    /\ op = [name |-> "init"]

x == V("x")
y == V("y")
z == V("z")

\* the rules of the scenarios
R_pq == Rule(Atom("p", <<x>>), <<Atom("q", <<x>>)>>)
R_pr == Rule(Atom("p", <<x>>), <<Atom("r", <<x>>)>>)
R_sp == Rule(Atom("s", <<x>>), <<Atom("p", <<x>>)>>)
R_s == Rule(Atom("s", <<x>>), <<Atom("t", <<x>>), Not(Atom("u", <<x>>))>>)
R_re == Rule(Atom("r", <<x, y>>), <<Atom("e", <<x, y>>)>>)
R_rre == Rule(Atom("r", <<x, z>>), <<Atom("r", <<x, y>>), Atom("e", <<y, z>>)>>)

UnaryAtoms(tables, n) == {Atom(t, <<C(c)>>) : t \in tables, c \in 1..n}

-----------------------------------------------------------------------------
(* Facade operations as atomic steps: the call runs to completion; a call   *)
(* that raises is no step.                                                  *)

Returned(name, r) ==
    /\ ~r.error
    /\ SetWorld(r.w)
    /\ ret' = r.changes
    /\ op' = [name |-> name]
    /\ UNCHANGED pc

FacadeInsert(formula, target) ==
    /\ pc = "idle"
    /\ Returned("insert", call("insert_obj", <<World, formula, get_target(target)>>))

FacadeDelete(formula, target) ==
    /\ pc = "idle"
    /\ Returned("delete", call("delete_obj", <<World, formula, get_target(target)>>))

\* the rules are installed in CLASSIFY
Installed(rules) == rules \subseteq delta["Clas"].originals

\* select(query) on theory th, as a list
Select(th, query) == call("select", <<World, th, query, TRUE>>).results

\* the constants c for which select(table(x)) on theory th returns table(c)
Selected(th, table) == {a.args[1].val : a \in AsSet(Select(th, Atom(table, <<x>>)))}

\* the rows of table in database object o
Rows(o, table) == IF table \in DOMAIN data[o] THEN data[o][table] ELSE <<>>

\* no table of database object o holds two DBTuples with equal tuple fields
Unique(o) ==
    \A t \in DOMAIN data[o] :
        \A i, j \in 1..Len(data[o][t]) :
            data[o][t][i].tuple = data[o][t][j].tuple => i = j

\* the constants c for which database object o stores the tuple (c) in table
Stored(o, table) ==
    IF table \in DOMAIN data[o]
    THEN {data[o][table][i].tuple[1] : i \in 1..Len(data[o][table])}
    ELSE {}

-----------------------------------------------------------------------------
(* SpecC1: rule p(x) :- q(x) in CLASSIFY, q atoms through the facade.       *)

NextC1 ==
    \/ FacadeInsert(R_pq, "Clas")
    \/ FacadeDelete(R_pq, "Clas")
    \/ \E atom \in UnaryAtoms({"q"}, MaxConst) : FacadeInsert(atom, "None")
    \/ \E atom \in UnaryAtoms({"q"}, MaxConst) : FacadeDelete(atom, "None")

SpecC1 == Init /\ [][NextC1]_vars

\* the constants c for which q(c) is currently present in DATABASE
PresentQ == Stored("DB", "q")

\* C1: with rule p(x) :- q(x) installed in CLASSIFY, after any sequence of
\* facade inserts and deletes of q atoms, select(p(x)) on CLASSIFY returns
\* p(c) exactly for the constants c for which q(c) is present, each once.
C1_SelectFollowsQ ==
    Installed({R_pq}) =>
        /\ Selected("Clas", "p") = PresentQ
        /\ Len(Select("Clas", Atom("p", <<x>>))) = Cardinality(PresentQ)

\* a delete of q(1) has returned while q(2) stays: select(p(x)) is [p(2)]
C1_Witness ==
    /\ Installed({R_pq})
    /\ op.name = "delete"
    /\ Len(ret) > 0
    /\ PresentQ = {2}
    /\ Select("Clas", Atom("p", <<x>>)) = <<Atom("p", <<C(2)>>)>>

-----------------------------------------------------------------------------
(* SpecC2: rules p(x) :- q(x) and p(x) :- r(x) in CLASSIFY, q and r atoms.  *)

NextC2 ==
    \/ \E rule \in {R_pq, R_pr} : FacadeInsert(rule, "Clas")
    \/ \E atom \in UnaryAtoms({"q", "r"}, MaxConstPQR) : FacadeInsert(atom, "None")
    \/ \E atom \in UnaryAtoms({"q", "r"}, MaxConstPQR) : FacadeDelete(atom, "None")

SpecC2 == Init /\ [][NextC2]_vars

\* C2: with rules p(x) :- q(x) and p(x) :- r(x) installed in CLASSIFY, after
\* any sequence of inserts and deletes of q and r atoms, p(c) is in
\* CLASSIFY's database iff q(c) or r(c) is present in DATABASE.
C2_ProofBasedDeletion ==
    Installed({R_pq, R_pr}) =>
        Stored("ClasDB", "p") = Stored("DB", "q") \cup Stored("DB", "r")

\* every stored tuple carries at least one proof
AllProved(o) ==
    \A t \in DOMAIN data[o] :
        \A i \in 1..Len(data[o][t]) : Len(data[o][t][i].proofs) >= 1

ProofsOfP(c) ==
    (IF c \in Stored("DB", "q") /\ Installed({R_pq})
     THEN {Proof(("x" :> C(c)), R_pq)} ELSE {})
    \cup (IF c \in Stored("DB", "r") /\ Installed({R_pr})
          THEN {Proof(("x" :> C(c)), R_pr)} ELSE {})

C2_Witness ==
    /\ Installed({R_pq, R_pr})
    /\ op.name = "delete"
    /\ Len(ret) > 0
    /\ Stored("DB", "q") = {}
    /\ Stored("DB", "r") = {1}
    /\ data["ClasDB"]["p"] =
            <<DBTuple(<<1>>, <<Proof(("x" :> C(1)), R_pr)>>)>>

-----------------------------------------------------------------------------
(* SpecC3: rule s(x) :- t(x), not u(x) in CLASSIFY, t and u atoms.          *)

NextC3 ==
    \/ FacadeInsert(R_s, "Clas")
    \/ \E atom \in UnaryAtoms({"t", "u"}, MaxConst) : FacadeInsert(atom, "None")
    \/ \E atom \in UnaryAtoms({"t", "u"}, MaxConst) : FacadeDelete(atom, "None")

SpecC3 == Init /\ [][NextC3]_vars

\* C3: with rule s(x) :- t(x), not u(x) installed in CLASSIFY, after any
\* sequence of inserts and deletes of t and u atoms, s(c) is present iff
\* t(c) is present and u(c) is absent.
C3_NegationAsFailure ==
    Installed({R_s}) =>
        /\ Selected("Clas", "s") = Stored("DB", "t") \ Stored("DB", "u")
        /\ Stored("ClasDB", "s") = Stored("DB", "t") \ Stored("DB", "u")

\* facts t(1), t(2), u(1), the last inserted being u(1): select(s(x)) is [s(2)]
C3_Witness ==
    /\ Installed({R_s})
    /\ op.name = "insert"
    /\ \E i \in 1..Len(ret) : ret[i] = Event(Atom("u", <<C(1)>>), TRUE, <<>>)
    /\ Stored("DB", "t") = {1, 2}
    /\ Stored("DB", "u") = {1}
    /\ Select("Clas", Atom("s", <<x>>)) = <<Atom("s", <<C(2)>>)>>

-----------------------------------------------------------------------------
(* SpecC4: the transitive-closure rules in CLASSIFY, then acyclic e facts,   *)
(* e(a, b) with a < b, inserted in any order.                               *)

Edges == {<<a, b>> \in (1..MaxNode) \X (1..MaxNode) : a < b}

EdgeAtom(edge) == Atom("e", <<C(edge[1]), C(edge[2])>>)

NextC4 ==
    \/ \E rule \in {R_re, R_rre} : FacadeInsert(rule, "Clas")
    \/ \E edge \in Edges : Installed({R_re, R_rre}) /\ FacadeInsert(EdgeAtom(edge), "None")

SpecC4 == Init /\ [][NextC4]_vars

\* the e facts present in DATABASE, as pairs of nodes
PresentEdges ==
    IF "e" \in DOMAIN data["DB"]
    THEN {data["DB"]["e"][i].tuple : i \in 1..Len(data["DB"]["e"])}
    ELSE {}

\* the nodes reachable from the nodes of S along one or more edges of E,
\* given the nodes found so far
RECURSIVE ReachableFrom(_, _)
ReachableFrom(found, E) ==
    LET more == found \cup {edge[2] : edge \in {e \in E : e[1] \in found}}
    IN  IF more = found THEN found ELSE ReachableFrom(more, E)

Reachable(a, E) == ReachableFrom({edge[2] : edge \in {e \in E : e[1] = a}}, E)

\* C4: with the transitive-closure rules installed in CLASSIFY and acyclic e
\* facts inserted in any order, select(r(a, y)) returns exactly the atoms
\* r(a, b) for the nodes b reachable from a along e edges.
C4_TransitiveClosure ==
    Installed({R_re, R_rre}) =>
        \A a \in 1..MaxNode :
            AsSet(Select("Clas", Atom("r", <<C(a), y>>))) =
                {Atom("r", <<C(a), C(b)>>) : b \in Reachable(a, PresentEdges)}

\* the facts e(1,2), e(2,3), e(3,4) and no other: select(r(1, y)) returns
\* r(1,2), r(1,3), r(1,4)
C4_Witness ==
    /\ Installed({R_re, R_rre})
    /\ op.name = "insert"
    /\ PresentEdges = {<<1, 2>>, <<2, 3>>, <<3, 4>>}
    /\ AsSet(Select("Clas", Atom("r", <<C(1), y>>))) =
            {Atom("r", <<C(1), C(b)>>) : b \in 2..4}

-----------------------------------------------------------------------------
(* SpecDB: Database.modify, Database.insert, Database.delete and            *)
(* Database.is_noop called on DATABASE with any atom of table p and any     *)
(* list of distinct proofs.                                                 *)

ProofNumber(k) == Proof(("x" :> C(k)), R_pq)

ProofLists ==
    {<<>>} \cup {<<ProofNumber(k)>> : k \in 1..MaxProof}
           \cup {<<ProofNumber(km[1]), ProofNumber(km[2])>> :
                    km \in {n \in (1..MaxProof) \X (1..MaxProof) : n[1] # n[2]}}

DbModify(atom, is_insert, proofs) ==
    LET Modified(r) ==
            /\ data' = [data EXCEPT !["DB"] = r.data]
            /\ ret' = r.changes
    IN  /\ pc = "idle"
        /\ Modified(Database_modify(data["DB"], atom, is_insert, proofs))
        /\ op' = [name |-> "modify", atom |-> atom, insert |-> is_insert,
                  proofs |-> proofs]
        /\ UNCHANGED <<delta, queue, contents, includes, logger, pc>>

\* Database.insert and Database.delete return None
DbInsert(atom, proofs) ==
    /\ pc = "idle"
    /\ data' = [data EXCEPT !["DB"] = Database_insert(@, atom, proofs)]
    /\ ret' = "None"
    /\ op' = [name |-> "insert", atom |-> atom, insert |-> TRUE, proofs |-> proofs]
    /\ UNCHANGED <<delta, queue, contents, includes, logger, pc>>

DbDelete(atom, proofs) ==
    /\ pc = "idle"
    /\ data' = [data EXCEPT !["DB"] = Database_delete(@, atom, proofs)]
    /\ ret' = "None"
    /\ op' = [name |-> "delete", atom |-> atom, insert |-> FALSE, proofs |-> proofs]
    /\ UNCHANGED <<delta, queue, contents, includes, logger, pc>>

\* Database.is_noop reads the database and returns a Boolean
DbIsNoop(atom, is_insert, proofs) ==
    /\ pc = "idle"
    /\ ret' = Database_is_noop(data["DB"], Event(atom, is_insert, proofs))
    /\ op' = [name |-> "is_noop", atom |-> atom, insert |-> is_insert,
              proofs |-> proofs]
    /\ UNCHANGED <<data, delta, queue, contents, includes, logger, pc>>

NextDB ==
    \E atom \in UnaryAtoms({"p"}, MaxRow), proofs \in ProofLists :
        \/ \E is_insert \in BOOLEAN : DbModify(atom, is_insert, proofs)
        \/ DbInsert(atom, proofs)
        \/ DbDelete(atom, proofs)
        \/ \E is_insert \in BOOLEAN : DbIsNoop(atom, is_insert, proofs)

SpecDB == Init /\ [][NextDB]_vars

\* the rows of table p in DATABASE
RowsP == Rows("DB", "p")

\* an insert of a tuple that is already stored appends no row: the rows keep
\* their tuples and the row of the tuple gains the proofs handed in
InsertMerges ==
    LET raw == argument_names(op'.atom)
        stored == \E i \in 1..Len(RowsP) : RowsP[i].tuple = raw
        inserts == \/ op'.name = "insert"
                   \/ op'.name = "modify" /\ op'.insert /\ ret' # <<>>
    IN  (inserts /\ stored) =>
            /\ Len(RowsP') = Len(RowsP)
            /\ \A i \in 1..Len(RowsP) :
                  /\ RowsP'[i].tuple = RowsP[i].tuple
                  /\ AsSet(RowsP'[i].proofs) =
                        IF RowsP[i].tuple = raw
                        THEN AsSet(RowsP[i].proofs) \cup AsSet(op'.proofs)
                        ELSE AsSet(RowsP[i].proofs)

\* C8: in every state reachable by Database.modify, insert and delete calls
\* no table holds two DBTuples with equal tuple fields, and inserting an
\* already stored tuple merges the proofs instead of appending a row.
C8_DatabaseUniqueness == [](Unique("DB")) /\ [][InsertMerges]_vars

\* insert of p(1) with proof 2 has acted on the stored p(1) with proof 1:
\* one row, carrying both proofs
C8_Witness ==
    /\ op.name = "insert"
    /\ op.atom = Atom("p", <<C(1)>>)
    /\ op.proofs = <<ProofNumber(2)>>
    /\ RowsP = <<DBTuple(<<1>>, <<ProofNumber(1), ProofNumber(2)>>)>>

\* C10: whenever Database.modify returns the empty list, the database's
\* tables, tuples and proof collections are what they were before the call.
C10_NoopFidelity ==
    [][(op'.name = "modify" /\ ret' = <<>>) => data' = data]_vars

\* a modify that deletes p(1) with proofs 1 and 2 has returned the empty
\* list on the stored p(1) that carries only proof 1
C10_Witness ==
    /\ op.name = "modify"
    /\ ~op.insert
    /\ ret = <<>>
    /\ op.atom = Atom("p", <<C(1)>>)
    /\ op.proofs = <<ProofNumber(1), ProofNumber(2)>>
    /\ RowsP = <<DBTuple(<<1>>, <<ProofNumber(1)>>)>>

-----------------------------------------------------------------------------
(* SpecModify: Database.modify called on DATABASE with p(1) or p(2), insert *)
(* or delete, and any list of distinct proofs.                              *)

ModifyAtoms == {Atom("p", <<C(1)>>), Atom("p", <<C(2)>>)}

NextModify ==
    \E atom \in ModifyAtoms, proofs \in ProofLists, is_insert \in BOOLEAN :
        DbModify(atom, is_insert, proofs)

SpecModify == Init /\ [][NextModify]_vars

\* the proofs stored with raw in rows, as a set; empty when raw is not stored
StoredProofs(rows, raw) ==
    UNION {AsSet(rows[i].proofs) : i \in {j \in 1..Len(rows) : rows[j].tuple = raw}}

IsStored(rows, raw) == \E i \in 1..Len(rows) : rows[i].tuple = raw

\* the rows of every tuple but raw, in their order
OtherRows(rows, raw) == SelectSeq(rows, LAMBDA row : row.tuple # raw)

\* nothing but table p of DATABASE differs between the two states
OnlyTableP ==
    /\ \A o \in DOMAIN data : o # "DB" => data'[o] = data[o]
    /\ DOMAIN data' = DOMAIN data
    /\ \A table \in DOMAIN data["DB"] :
          table # "p" => (table \in DOMAIN data'["DB"] /\
                          data'["DB"][table] = data["DB"][table])
    /\ DOMAIN data'["DB"] \subseteq DOMAIN data["DB"] \cup {"p"}

\* C21: a Database.modify delete of a stored tuple with proofs D leaves the
\* tuple with its old proofs minus D, and without a row iff nothing remains,
\* for every D, a D that only partly overlaps the stored proofs included.
C21_DeleteSubtracts ==
    [][LET raw == argument_names(op'.atom)
           remaining == StoredProofs(RowsP, raw) \ AsSet(op'.proofs)
       IN  (op'.name = "modify" /\ ~op'.insert /\ IsStored(RowsP, raw)) =>
               /\ IsStored(RowsP', raw) <=> remaining # {}
               /\ StoredProofs(RowsP', raw) = remaining]_vars

\* C22: a Database.modify insert leaves exactly one DBTuple for the tuple;
\* its proofs are the old proofs together with the supplied ones when the
\* tuple was stored and exactly the supplied ones when it was not; no other
\* tuple and no other table changes.
C22_InsertUnion ==
    [][LET raw == argument_names(op'.atom)
           index == {i \in 1..Len(RowsP') : RowsP'[i].tuple = raw}
       IN  (op'.name = "modify" /\ op'.insert) =>
               /\ Cardinality(index) = 1
               /\ IF IsStored(RowsP, raw)
                  THEN StoredProofs(RowsP', raw) =
                          StoredProofs(RowsP, raw) \cup AsSet(op'.proofs)
                  ELSE \A i \in index : RowsP'[i].proofs = op'.proofs
               /\ OtherRows(RowsP', raw) = OtherRows(RowsP, raw)
               /\ OnlyTableP]_vars

\* a modify has inserted p(1) with proof 2 on the stored p(2) with proof 1
\* and p(1) with proof 1: p(1) carries both proofs and p(2) is as it was
C22_Witness ==
    /\ op.name = "modify"
    /\ op.insert
    /\ op.atom = Atom("p", <<C(1)>>)
    /\ op.proofs = <<ProofNumber(2)>>
    /\ ret # <<>>
    /\ RowsP = <<DBTuple(<<2>>, <<ProofNumber(1)>>),
                 DBTuple(<<1>>, <<ProofNumber(1), ProofNumber(2)>>)>>

\* C23: Database.modify returns a one-element list only when the call
\* changed the database; a call that changes nothing returns the empty list.
C23_EventMeansChange ==
    [][(op'.name = "modify" /\ ret' # <<>>) => data' # data]_vars

-----------------------------------------------------------------------------
(* SpecQueue: MaterializedViewTheory.modify called on CLASSIFY, with the    *)
(* loop of process_queue taken one step at a time: pc is "idle" between     *)
(* calls, "process_queue" at the loop's test and "propagate" when an event  *)
(* has been dequeued (op holds it); ret is the history of the call.  The    *)
(* formulas are the transitive-closure rules and e facts over               *)
(* 1..MaxLoopNode, cycles included, no node getting a second outgoing edge. *)

LoopEdges == (1..MaxLoopNode) \X (1..MaxLoopNode)

\* enqueue_with_included has run; process_queue starts with an empty history
QCall(formula, is_insert) ==
    LET Enqueued(e) == ~e.error /\ SetWorld(e.w)
    IN  /\ pc = "idle"
        /\ Enqueued(enqueue_with_included(World, "Clas", formula, is_insert))
        /\ pc' = "process_queue"
        /\ ret' = <<>>
        /\ op' = [name |-> "modify"]

QCallRule(rule) == QCall(rule, TRUE)

QCallEdge(edge, is_insert) ==
    /\ is_insert => ~\E b \in 1..MaxLoopNode : <<edge[1], b>> \in PresentEdges
    /\ QCall(EdgeAtom(edge), is_insert)

\* a dequeue that takes the event enqueued last
QDequeue_last ==
    /\ pc = "process_queue"
    /\ Len(queue["Clas"]) > 0
    /\ queue' = [queue EXCEPT !["Clas"] = SubSeq(@, 1, Len(@) - 1)]
    /\ op' = [name |-> "dequeue", event |-> queue["Clas"][Len(queue["Clas"])]]
    /\ pc' = "propagate"
    /\ UNCHANGED <<data, delta, contents, includes, logger, ret>>

\* event = self.queue.dequeue()
QDequeue ==
    /\ pc = "process_queue"
    /\ Len(queue["Clas"]) > 0
    /\ queue' = [queue EXCEPT !["Clas"] = Tail(@)]
    /\ op' = [name |-> "dequeue", event |-> Head(queue["Clas"])]
    /\ pc' = "propagate"
    /\ UNCHANGED <<data, delta, contents, includes, logger, ret>>

\* the body of the loop for the dequeued event; an exception ends the call
QProcess ==
    /\ pc = "propagate"
    /\ \E r \in {process_event(World, "Clas", op.event)} :
          /\ SetWorld(r.w)
          /\ ret' = IF r.error THEN ret ELSE ret \o r.changes
          /\ pc' = IF r.error THEN "idle" ELSE "process_queue"
    /\ UNCHANGED op

\* len(self.queue) = 0: process_queue returns the history
QReturn ==
    /\ pc = "process_queue"
    /\ Len(queue["Clas"]) = 0
    /\ pc' = "idle"
    /\ op' = [name |-> "return"]
    /\ UNCHANGED <<data, delta, queue, contents, includes, logger, ret>>

QRun == QDequeue \/ QProcess \/ QReturn

NextQueue ==
    \/ \E rule \in {R_re, R_rre} : QCallRule(rule)
    \/ \E edge \in LoopEdges, is_insert \in BOOLEAN : QCallEdge(edge, is_insert)
    \/ QDequeue
    \/ QProcess
    \/ QReturn

\* A step of a running call: QDequeue, QProcess and QReturn are the steps
\* that leave a position other than "idle", each changes pc, and one of them
\* is enabled at every such position.
QStep == pc # "idle" /\ pc' \in {"idle", "process_queue", "propagate"} /\ pc' # pc

\* a call that has started keeps running: the loop is sequential code
SpecQueue == Init /\ [][NextQueue]_vars /\ WF_pc(QStep)

\* C5: every MaterializedViewTheory.modify eventually returns, cyclic base
\* data such as e(1,1) under the transitive-closure rules included:
\* process_queue reaches an empty queue.
C5_ModifyReturns == (pc # "idle") ~> (pc = "idle")

-----------------------------------------------------------------------------
(* SpecSim: rules p(x) :- q(x), p(x) :- r(x) and s(x) :- p(x) in CLASSIFY,  *)
(* q and r atoms through the facade, and simulate called with a query on p  *)
(* or s and a sequence of the atom updates q+, q-, r+, r- or one of the     *)
(* rule updates p+(x) :- r(x), p-(x) :- r(x).                               *)

SimRules == {R_pq, R_pr, R_sp}

AtomUpdates ==
    {Atom(t \o sign, <<C(c)>>) :
        t \in {"q", "r"}, sign \in {"+", "-"}, c \in 1..MaxConstPQR}

RuleUpdates == {Rule(Atom("p" \o sign, <<x>>), R_pr.body) : sign \in {"+", "-"}}

UpdateSequences ==
    UNION {[1..n -> AtomUpdates] : n \in 1..MaxSeq} \cup {<<u>> : u \in RuleUpdates}

Queries == {Atom("p", <<x>>), Atom("s", <<x>>)}

\* Runtime.simulate has returned its result; a call that raises is no step
Simulate(query, sequence) ==
    LET Simulated(r) == ~r.error /\ SetWorld(r.w) /\ ret' = r.result
    IN  /\ pc = "idle"
        /\ Simulated(call("simulate_obj", <<World, query, sequence>>))
        /\ op' = [name |-> "simulate", query |-> query, sequence |-> sequence]
        /\ UNCHANGED pc

NextSim ==
    \/ \E rule \in SimRules : FacadeInsert(rule, "Clas")
    \/ \E atom \in UnaryAtoms({"q", "r"}, MaxConstPQR) :
          Installed(SimRules) /\ FacadeInsert(atom, "None")
    \/ \E atom \in UnaryAtoms({"q", "r"}, MaxConstPQR) :
          Installed(SimRules) /\ FacadeDelete(atom, "None")
    \/ \E query \in Queries, sequence \in UpdateSequences :
          Installed(SimRules) /\ Simulate(query, sequence)

SpecSim == Init /\ [][NextSim]_vars

\* the tuples of database object o with their tables and proof sets
Facts(o) ==
    UNION {{<<t, data[o][t][i].tuple, AsSet(data[o][t][i].proofs)>> :
                i \in 1..Len(data[o][t])} : t \in DOMAIN data[o]}

\* the rules of the NonrecursiveRuleTheory th
RulesOf(th) == UNION {AsSet(contents[th][t]) : t \in DOMAIN contents[th]}

\* what the theories hold, as sets: DATABASE's tuples, the tuples and rules
\* of CLASSIFY and ENFORCEMENT, the rules of ACTION and SERVICE
TheoryContents ==
    [database |-> Facts("DB"),
     classify |-> <<Facts("ClasDB"), delta["Clas"].originals>>,
     enforcement |-> <<Facts("EnforDB"), delta["Enfor"].originals>>,
     action |-> RulesOf("Act"),
     service |-> RulesOf("Serv")]

\* C6: after simulate(q, s) returns, every theory holds the same set of
\* tables, tuples, per-tuple proof sets and rules as before the call.
C6_SimulatePurity ==
    [][op'.name = "simulate" => TheoryContents' = TheoryContents]_vars

\* the table and the direction an update on T+ or T- names
DirectOf(update) ==
    CHOOSE d \in {"p", "q", "r"} \X BOOLEAN :
        tablename(update) = d[1] \o (IF d[2] THEN "+" ELSE "-")

\* the formula an update inserts or deletes
FormulaOf(update) ==
    IF is_atom(update) THEN Atom(DirectOf(update)[1], update.args)
    ELSE Rule(Atom(DirectOf(update)[1], update.head.args), update.body)

\* the world after the updates sequence[i..] have been applied, in order, to
\* CLASSIFY by its insert and delete
RECURSIVE ApplyDirect(_, _, _)
ApplyDirect(w, sequence, i) ==
    IF i > Len(sequence) THEN w
    ELSE ApplyDirect(
            call("MaterializedViewTheory_modify",
                 <<w, "Clas", FormulaOf(sequence[i]), DirectOf(sequence[i])[2]>>).w,
            sequence, i + 1)

\* C7: the list simulate(q, s) returns equals, as a set, what select(q) on
\* CLASSIFY returns after the updates of s have been applied directly, in
\* order, to CLASSIFY.
C7_SimulateResult ==
    [][op'.name = "simulate" =>
        AsSet(ret') = AsSet(call("select", <<ApplyDirect(World, op'.sequence, 1),
                                            "Clas", op'.query, TRUE>>).results)]_vars

\* with only q(1) present, simulate(p(x), [r+(1), q-(1)]) has returned p(1)
C7_Witness ==
    /\ op.name = "simulate"
    /\ op.query = Atom("p", <<x>>)
    /\ op.sequence = <<Atom("r+", <<C(1)>>), Atom("q-", <<C(1)>>)>>
    /\ AsSet(ret) = {Atom("p", <<C(1)>>)}
    /\ Stored("DB", "q") = {1}
    /\ Stored("DB", "r") = {}


\* the list holds no two structurally equal elements
NoDuplicates(seq) == \A i, j \in 1..Len(seq) : seq[i] = seq[j] => i = j

\* C13: select(query, find_all=True) on DATABASE, CLASSIFY and ENFORCEMENT
\* returns no instance twice, for the queries q(x) and p(x), the base fact
\* q(c) being stored in DATABASE and in the databases of CLASSIFY and
\* ENFORCEMENT.
C13_SelectDeduplicates ==
    \A th \in {"DB", "Clas", "Enfor"}, table \in {"q", "p"} :
        NoDuplicates(Select(th, Atom(table, <<x>>)))

-----------------------------------------------------------------------------
(* SpecFacade: Runtime.insert and Runtime.delete with explicit targets.  The *)
(* formulas are the atoms q(a) and alert(a), the fact action(alert) and the  *)
(* rule alert(x) :- q(x); a call that raises is a step that records the      *)
(* raise in op and returns nothing.                                           *)

\* the execution log of the facade scenarios holds at most MaxLog actions
MaxLog == 1

q_a == Atom("q", <<C("a")>>)
alert_a == Atom("alert", <<C("a")>>)
action_alert == Atom("action", <<C("alert")>>)
R_alert == Rule(Atom("alert", <<x>>), <<Atom("q", <<x>>)>>)

\* the calls (formula, target) of the scenarios; "None" is the default target
FacadeCalls ==
    ({q_a} \X {"None", "Clas", "DB"})
        \cup ({alert_a} \X {"Enfor"})
        \cup ({action_alert} \X {"Act"})
        \cup ({R_alert} \X {"None"})

\* Runtime.insert / Runtime.delete has returned or raised
Called(name, formula, target, r) ==
    /\ pc = "idle"
    /\ Len(r.w.logger) <= MaxLog
    /\ SetWorld(r.w)
    /\ ret' = IF r.error THEN <<>> ELSE r.changes
    /\ op' = [name |-> name, formula |-> formula, target |-> target,
              raised |-> r.error]
    /\ UNCHANGED pc

CallInsert(formula, target) ==
    Called("insert", formula, target,
           call("insert_obj", <<World, formula, get_target(target)>>))

CallDelete(formula, target) ==
    Called("delete", formula, target,
           call("delete_obj", <<World, formula, get_target(target)>>))

NextFacade ==
    \/ \E c \in FacadeCalls : CallInsert(c[1], c[2])
    \/ \E c \in FacadeCalls : CallDelete(c[1], c[2])

SpecFacade == Init /\ [][NextFacade]_vars

\* the theories' state: everything but the execution log
TheoryState(w) == <<w.data, w.delta, w.queue, w.contents, w.includes>>

\* the step is what insert/delete of op'.formula on theory th does
AppliedTo(th) ==
    TheoryState(World') =
        TheoryState(call("Theory_update",
                         <<World, th, op'.formula, op'.name = "insert">>).w)

\* the step changes nothing outside theory th, its database included
OnlyTouches(th) ==
    /\ \A o \in DatabaseObjs : (th \notin MaterializedObjs \/ o # database(th))
                                  => data'[o] = data[o]
    /\ \A o \in MaterializedObjs : o # th => delta'[o] = delta[o] /\ queue'[o] = queue[o]
    /\ \A o \in NonrecursiveObjs : o # th => contents'[o] = contents[o]
    /\ includes' = includes

\* the atom is stored in (absent from) every one of the three databases
InAllDatabases(atom, present) ==
    \A o \in DatabaseObjs :
        (\E i \in 1..Len(Rows(o, atom.table)) : Rows(o, atom.table)[i].tuple = argument_names(atom))
            <=> present

\* after an atom call routed to ENFORCEMENT the atom is in (insert) or out of
\* (delete) the databases of DATABASE, CLASSIFY and ENFORCEMENT
ReachesDatabases ==
    (/\ op.name \in {"insert", "delete"}
     /\ ~op.raised
     /\ is_atom(op.formula)
     /\ op.target \in {"None", "Clas", "DB"})
        => InAllDatabases(op.formula, op.name = "insert")

\* C11: a facade insert/delete of an atom targeting CLASSIFY, DATABASE or the
\* default target is applied to ENFORCEMENT, so that the change reaches the
\* databases of DATABASE, CLASSIFY and ENFORCEMENT; a rule, or an atom with
\* any other target, is applied to its declared target (the default being
\* CLASSIFY) and, for a rule or a target that includes no theory to notify,
\* changes no other theory.
C11_Routing ==
    /\ []ReachesDatabases
    /\ [][(op'.name \in {"insert", "delete"} /\ ~op'.raised) =>
        IF is_atom(op'.formula) /\ op'.target \in {"None", "Clas", "DB"}
        THEN AppliedTo("Enfor")
        ELSE /\ AppliedTo(IF op'.target = "None" THEN "Clas" ELSE op'.target)
             /\ (~is_atom(op'.formula) \/ op'.target \in NonrecursiveObjs)
                   => OnlyTouches(IF op'.target = "None" THEN "Clas" ELSE op'.target)
        ]_vars

\* q(a) inserted with target DATABASE is stored in the databases of
\* DATABASE, CLASSIFY and ENFORCEMENT, and the rule with the default target
\* is installed in CLASSIFY only
C11_Witness ==
    /\ op.name = "insert" /\ op.formula = q_a /\ op.target = "DB" /\ ~op.raised
    /\ Len(ret) > 0
    /\ InAllDatabases(q_a, TRUE)
    /\ R_alert \in delta["Clas"].originals
    /\ R_alert \notin delta["Enfor"].originals


\* the formulas of the returned changes that are insert events of atoms whose
\* table is an action name after the call
ExpectedExecution ==
    LET facts == IF "action" \in DOMAIN contents'["Act"]
                 THEN {r \in AsSet(contents'["Act"]["action"]) : r.body = <<>>}
                 ELSE {}
        stored == UNION {IF "action" \in DOMAIN data'[o]
                         THEN {row.tuple[1] : row \in AsSet(data'[o]["action"])}
                         ELSE {} : o \in {"ClasDB", "DB"}}
        names == {r.head.args[1].val : r \in facts} \cup stored
        hits == SelectSeq(ret', LAMBDA change :
                    /\ "formula" \in DOMAIN change
                    /\ change.insert
                    /\ "table" \in DOMAIN change.formula
                    /\ change.formula.table \in names)
    IN  [i \in 1..Len(hits) |-> hits[i].formula]

\* C18: every facade insert or delete that returns has executed (logged)
\* exactly the formulas of its returned changes that are insert events of
\* atoms whose table is an action name, in their order; delete events, rules
\* and atoms of other tables add nothing to the log, and neither does a call
\* that returns no change.
C18_ReactToChanges ==
    [][(op'.name \in {"insert", "delete"} /\ ~op'.raised) =>
        logger' = logger \o ExpectedExecution]_vars

\* with action(alert) in ACTION and alert(x) :- q(x) in CLASSIFY, inserting
\* q(a) has returned the insert events of q(a) and alert(a) and executed
\* alert(a) only
C18_Witness ==
    /\ op.name = "insert" /\ op.formula = q_a /\ ~op.raised
    /\ \E i \in 1..Len(ret) : ret[i] = Event(alert_a, TRUE, ret[i].proofs)
    /\ \E i \in 1..Len(ret) : ret[i] = Event(q_a, TRUE, <<>>)
    /\ logger = <<alert_a>>
    /\ RulesOf("Act") = {Rule(action_alert, <<>>)}

-----------------------------------------------------------------------------
(* SpecView: insert and delete called on CLASSIFY and on ENFORCEMENT with   *)
(* the atoms q(a) and alert(a) and the rule alert(x) :- q(x); a call that   *)
(* raises is a step that records the raise in op.                            *)

\* MaterializedViewTheory.insert / delete on theory th has returned or raised
ViewModify(th, formula, is_insert) ==
    LET Modified(r) ==
            /\ SetWorld(r.w)
            /\ ret' = IF r.error THEN <<>> ELSE r.changes
            /\ op' = [name |-> "modify", theory |-> th, formula |-> formula,
                      insert |-> is_insert, raised |-> r.error]
    IN  /\ pc = "idle"
        /\ Modified(call("MaterializedViewTheory_modify", <<World, th, formula, is_insert>>))
        /\ UNCHANGED pc

NextView ==
    \E th \in MaterializedObjs, formula \in {q_a, alert_a, R_alert}, is_insert \in BOOLEAN :
        ViewModify(th, formula, is_insert)

SpecView == Init /\ [][NextView]_vars

\* the materialized theories a call on theory th reaches: th and the
\* materialized theories it includes, transitively
RECURSIVE ReachedFrom(_)
ReachedFrom(th) ==
    {th} \cup UNION {ReachedFrom(includes[th][i]) :
                        i \in {j \in 1..Len(includes[th]) : includes[th][j] \in MaterializedObjs}}

\* table is the head of a rule installed in a theory the call on th reaches
IsInstalledView(th, table) ==
    \E o \in ReachedFrom(th) : \E rule \in delta[o].originals : rule.head.table = table

\* C12: insert or delete of an atom whose table is the head of an installed
\* rule of the theory called, or of CLASSIFY when the call is made on
\* ENFORCEMENT, raises and leaves every database, every theory's delta rules
\* and every event queue as they were; an atom of any other table is accepted.
C12_ViewPrecondition ==
    [][(op'.name = "modify" /\ is_atom(op'.formula)) =>
        /\ op'.raised <=> IsInstalledView(op'.theory, op'.formula.table)
        /\ op'.raised => (data' = data /\ delta' = delta /\ queue' = queue)
      ]_vars

\* alert(x) :- q(x) is installed in CLASSIFY only, q(a) holds, and insert of
\* alert(a) on ENFORCEMENT has raised
C12_Witness ==
    /\ op.name = "modify" /\ op.theory = "Enfor" /\ op.raised
    /\ op.formula = alert_a
    /\ delta["Clas"].originals = {R_alert}
    /\ delta["Enfor"].originals = {}
    /\ InAllDatabases(q_a, TRUE)

-----------------------------------------------------------------------------
(* SpecQuery: the rule p(x) :- q(x) inserted into and deleted from CLASSIFY, *)
(* q atoms through the facade, and select and abduce called on DATABASE,     *)
(* CLASSIFY, ENFORCEMENT and ACTION with find_all true and false.  The       *)
(* evaluation writes to the caller, the contexts and the unifiers of the     *)
(* call only, so a query step changes ret and op and nothing else.           *)

\* the queries: an atom of a base table, an atom of a view, a rule
QueryFormulas == {Atom("q", <<x>>), Atom("p", <<x>>), R_sp}

\* a query that consumes the tuples of the databases it has read
QueryReturned_consuming(name, th, query, find_all, r) ==
    /\ pc = "idle"
    /\ ~r.error
    /\ ret' = r.results
    /\ op' = [name |-> name, theory |-> th, query |-> query, find_all |-> find_all]
    /\ data' = [o \in DatabaseObjs |-> IF r.results = <<>> THEN data[o] ELSE EmptyDict]
    /\ UNCHANGED <<delta, queue, contents, includes, logger, pc>>

\* select / abduce has returned its list
QueryReturned(name, th, query, find_all, r) ==
    /\ pc = "idle"
    /\ ~r.error
    /\ ret' = r.results
    /\ op' = [name |-> name, theory |-> th, query |-> query, find_all |-> find_all]
    /\ UNCHANGED <<data, delta, queue, contents, includes, logger, pc>>

QuerySelect(th, query, find_all) ==
    QueryReturned("select", th, query, find_all,
                  call("select", <<World, th, query, find_all>>))

QueryAbduce(th, query, find_all) ==
    QueryReturned("abduce", th, query, find_all,
                  call("abduce", <<World, th, query, {"q"}, find_all>>))

NextQuery ==
    \/ FacadeInsert(R_pq, "Clas")
    \/ FacadeDelete(R_pq, "Clas")
    \/ \E atom \in UnaryAtoms({"q"}, MaxConstPQR) : FacadeInsert(atom, "None")
    \/ \E atom \in UnaryAtoms({"q"}, MaxConstPQR) : FacadeDelete(atom, "None")
    \/ \E th \in {"DB", "Clas", "Enfor", "Act"}, query \in QueryFormulas, find_all \in BOOLEAN :
          QuerySelect(th, query, find_all)
    \/ \E th \in {"DB", "Clas", "Enfor", "Act"}, query \in QueryFormulas, find_all \in BOOLEAN :
          QueryAbduce(th, query, find_all)

SpecQuery == Init /\ [][NextQuery]_vars

-----------------------------------------------------------------------------
(* SpecDelta: DeltaRuleTheory.compute_delta_rules and eliminate_self_joins  *)
(* applied to lists of formulas.  A list holds a rule h(x) :- body, the     *)
(* body of 1..MaxBody literals drawn from q(x), q(y), q(x,y), not u(x) and  *)
(* not q(x), alone or followed by an atom or by a rule joining q or u with   *)
(* itself.                                                                    *)

\* the bodies of the rules handed to DeltaRuleTheory have 1..MaxBody literals
MaxBody == 3

DeltaLiterals ==
    {Atom("q", <<x>>), Atom("q", <<y>>), Atom("q", <<x, y>>),
     Not(Atom("u", <<x>>)), Not(Atom("q", <<x>>))}

DeltaRulesIn ==
    {Rule(Atom("h", <<x>>), lits) :
        lits \in UNION {[1..n -> DeltaLiterals] : n \in 1..MaxBody}}

DeltaSecond ==
    {Atom("q", <<C(1)>>),
     Rule(Atom("g", <<x>>), <<Atom("q", <<x>>), Atom("q", <<y>>)>>),
     Rule(Atom("g", <<x>>), <<Atom("u", <<x>>), Atom("q", <<x>>), Atom("u", <<y>>)>>)}

DeltaInputs == {<<r>> : r \in DeltaRulesIn} \cup (DeltaRulesIn \X DeltaSecond)

\* a list of formulas is at hand
InitDelta ==
    /\ data = InitWorld.data
    /\ delta = InitWorld.delta
    /\ queue = InitWorld.queue
    /\ contents = InitWorld.contents
    /\ includes = InitWorld.includes
    /\ logger = InitWorld.logger
    /\ pc = "idle"
    /\ ret = <<>>
    /\ \E formulas \in DeltaInputs : op = [name |-> "formulas", formulas |-> formulas]

\* the classmethod has returned its list
ClassMethod(name, result) ==
    /\ op.name = "formulas"
    /\ ret' = result
    /\ op' = [op EXCEPT !.name = name]
    /\ UNCHANGED <<data, delta, queue, contents, includes, logger, pc>>

ComputeDeltaRules == ClassMethod("compute_delta_rules", compute_delta_rules(op.formulas))

EliminateSelfJoins == ClassMethod("eliminate_self_joins", eliminate_self_joins(op.formulas))

NextDelta == ComputeDeltaRules \/ EliminateSelfJoins

SpecDelta == InitDelta /\ [][NextDelta]_vars

\* the (table, arity) of a literal
TableArity(lit) == <<lit.table, Len(lit.args)>>

\* the body literals have pairwise distinct (table, arity)
NoSelfJoin(lits) ==
    \A i, j \in 1..Len(lits) : TableArity(lits[i]) = TableArity(lits[j]) => i = j

\* the list without its i-th element
Others(seq, i) == [k \in 1..(Len(seq) - 1) |-> IF k < i THEN seq[k] ELSE seq[k + 1]]

\* the delta rules C15 expects for one formula
RECURSIVE ExpectedDeltas(_)
ExpectedDeltas(formulas) ==
    IF formulas = <<>> THEN <<>>
    ELSE LET rule == Head(formulas)
         IN  (IF is_atom(rule) THEN <<>>
              ELSE [i \in 1..Len(rule.body) |->
                      DeltaRule(rule.body[i], rule.head, Others(rule.body, i), rule)])
             \o ExpectedDeltas(Tail(formulas))

\* C15: for formulas without self-joins compute_delta_rules returns, for each
\* rule in turn, one delta rule per body literal: the i-th has the i-th body
\* literal with its polarity as trigger, the rule's head as head, the other
\* literals in source order as body and the rule as original; an atom
\* contributes no delta rule.
C15_DeltaCoverage ==
    (/\ op.name = "compute_delta_rules"
     /\ \A i \in 1..Len(op.formulas) :
            is_atom(op.formulas[i]) \/ NoSelfJoin(op.formulas[i].body))
        => ret = ExpectedDeltas(op.formulas)

\* h(x) :- q(x), not u(x), q(x,y) followed by the atom q(1) has three delta
\* rules, the second triggered by not u(x)
C15_Witness ==
    /\ op.name = "compute_delta_rules"
    /\ op.formulas = <<Rule(Atom("h", <<x>>),
                            <<Atom("q", <<x>>), Not(Atom("u", <<x>>)), Atom("q", <<x, y>>)>>),
                       Atom("q", <<C(1)>>)>>
    /\ Len(ret) = 3
    /\ ret[2].trigger = Not(Atom("u", <<x>>))
    /\ ret[2].body = <<Atom("q", <<x>>), Atom("q", <<x, y>>)>>

\* how many of the literals before the i-th have the i-th's (table, arity)
Earlier(lits, i) ==
    Cardinality({j \in 1..(i - 1) : TableArity(lits[j]) = TableArity(lits[i])})

\* the name C16 gives the k-th repeated occurrence of (table, arity)
Synthetic(table, arity, k) ==
    "___" \o table \o "_" \o ToString(arity) \o "_" \o ToString(k)

\* the rule with its repeated occurrences renamed
Renamed(rule) ==
    IF is_atom(rule) THEN rule
    ELSE [rule EXCEPT !.body = [i \in 1..Len(rule.body) |->
            IF Earlier(rule.body, i) = 0 THEN rule.body[i]
            ELSE [rule.body[i] EXCEPT !.table =
                    Synthetic(rule.body[i].table, Len(rule.body[i].args),
                              Earlier(rule.body, i))]]]

\* (table, arity, k) for every synthetic table the renamed formulas use
SyntheticUsed(formulas) ==
    UNION {{<<TableArity(formulas[n].body[i])[1], TableArity(formulas[n].body[i])[2],
              Earlier(formulas[n].body, i)>> :
                i \in {j \in 1..Len(formulas[n].body) : Earlier(formulas[n].body, j) > 0}} :
            n \in {m \in 1..Len(formulas) : ~is_atom(formulas[m])}}

\* the wrapping rule ___table_arity_k(X...) :- table(X...)
Wrapping(rule, t) ==
    /\ ~is_atom(rule)
    /\ rule.head.table = Synthetic(t[1], t[2], t[3])
    /\ Len(rule.body) = 1
    /\ rule.body[1].table = t[1]
    /\ ~rule.body[1].neg
    /\ rule.head.args = rule.body[1].args
    /\ Len(rule.head.args) = t[2]
    /\ \A i, j \in 1..t[2] :
          is_variable(rule.head.args[i]) /\ (rule.head.args[i] = rule.head.args[j] => i = j)

\* C16: eliminate_self_joins returns the formulas in order, the k-th repeated
\* occurrence (k >= 1) of a (table, arity) in a body renamed to
\* ___<table>_<arity>_<k>, followed by exactly one wrapping rule
\* ___<table>_<arity>_<k>(X...) :- <table>(X...) for each synthetic table
\* used, so that the body literals of every returned rule have pairwise
\* distinct (table, arity).
C16_SelfJoinElimination ==
    op.name = "eliminate_self_joins" =>
        LET n == Len(op.formulas)
            used == SyntheticUsed(op.formulas)
        IN  /\ Len(ret) = n + Cardinality(used)
            /\ \A i \in 1..n : ret[i] = Renamed(op.formulas[i])
            /\ \A t \in used : \E i \in (n + 1)..Len(ret) : Wrapping(ret[i], t)
            /\ \A i \in 1..Len(ret) : is_atom(ret[i]) \/ NoSelfJoin(ret[i].body)

\* h(x) :- q(x), q(y), q(x) followed by g(x) :- u(x), q(x), u(y): the third
\* literal of the first rule is ___q_1_2 and three wrapping rules are added
C16_Witness ==
    /\ op.name = "eliminate_self_joins"
    /\ op.formulas = <<Rule(Atom("h", <<x>>),
                            <<Atom("q", <<x>>), Atom("q", <<y>>), Atom("q", <<x>>)>>),
                       Rule(Atom("g", <<x>>),
                            <<Atom("u", <<x>>), Atom("q", <<x>>), Atom("u", <<y>>)>>)>>
    /\ Len(ret) = 5
    /\ ret[1].body[3].table = "___q_1_2"
    /\ ret[2].body[3].table = "___u_1_1"

-----------------------------------------------------------------------------
(* SpecJoin: the rules p(x) :- q(x), q(y) and s(x) :- q(x), q(y), both      *)
(* joining q with itself, inserted into and deleted from CLASSIFY, and q    *)
(* atoms through the facade.                                                 *)

R_pqq == Rule(Atom("p", <<x>>), <<Atom("q", <<x>>), Atom("q", <<y>>)>>)
R_sqq == Rule(Atom("s", <<x>>), <<Atom("q", <<x>>), Atom("q", <<y>>)>>)

NextJoin ==
    \/ \E rule \in {R_pqq, R_sqq} : FacadeInsert(rule, "Clas")
    \/ \E rule \in {R_pqq, R_sqq} : FacadeDelete(rule, "Clas")
    \/ \E atom \in UnaryAtoms({"q"}, MaxConstPQR) : FacadeInsert(atom, "None")
    \/ \E atom \in UnaryAtoms({"q"}, MaxConstPQR) : FacadeDelete(atom, "None")

SpecJoin == Init /\ [][NextJoin]_vars

\* the rule is installed in CLASSIFY, in the form eliminate_self_joins gives it
InstalledJoin(rule) == eliminate_self_joins(<<rule>>)[1] \in delta["Clas"].originals

\* C17: while a self-joining rule h(x) :- q(x), q(y) is installed in CLASSIFY,
\* select(h(x)) on CLASSIFY lists h(c) for exactly the c the original rule
\* derives from the current data, that is the c with q(c) in DATABASE, whatever
\* rule and atom inserts and deletes came before; deleting the other rule
\* that joins q with itself does not change it.
C17_SelfJoinEquivalence ==
    \A rule \in {R_pqq, R_sqq} :
        InstalledJoin(rule) => Selected("Clas", rule.head.table) = Stored("DB", "q")


-----------------------------------------------------------------------------
(* SpecExecute: the facts action(alert) and action(notify) inserted into    *)
(* and deleted from ACTION, and Runtime.execute called with sequences of    *)
(* 1..MaxSeq atoms drawn from alert(a), notify(a) and the unground alert(x). *)

action_notify == Atom("action", <<C("notify")>>)
notify_a == Atom("notify", <<C("a")>>)
alert_x == Atom("alert", <<x>>)

ActionSequences == UNION {[1..n -> {alert_a, notify_a, alert_x}] : n \in 1..MaxSeq}

\* Runtime.execute has returned or raised
Execute(sequence) ==
    LET Executed(r) ==
            /\ Len(r.w.logger) <= MaxLog
            /\ SetWorld(r.w)
            /\ op' = [name |-> "execute", sequence |-> sequence, raised |-> r.error]
    IN  /\ pc = "idle"
        /\ Executed(call("execute_obj", <<World, sequence>>))
        /\ ret' = <<>>
        /\ UNCHANGED pc

NextExecute ==
    \/ \E fact \in {action_alert, action_notify} : CallInsert(fact, "Act")
    \/ \E fact \in {action_alert, action_notify} : CallDelete(fact, "Act")
    \/ \E sequence \in ActionSequences : Execute(sequence)

SpecExecute == Init /\ [][NextExecute]_vars

\* every atom of the sequence names an action of ACTION
AllActions(sequence) ==
    \A i \in 1..Len(sequence) :
        Rule(Atom("action", <<C(sequence[i].table)>>), <<>>) \in RulesOf("Act")

\* C19: execute of a sequence of action atoms, one of them not ground, does
\* not fail: it returns having logged the ground actions of the sequence, in
\* order, and having skipped the others.
C19_UngroundSkipped ==
    [][(op'.name = "execute" /\ AllActions(op'.sequence)) =>
        /\ ~op'.raised
        /\ logger' = logger \o SelectSeq(op'.sequence, is_ground)]_vars

-----------------------------------------------------------------------------
(* SpecExplain: the rule p(x) :- q(x) inserted into and deleted from        *)
(* CLASSIFY, q atoms through the facade, and explain called on CLASSIFY and *)
(* ENFORCEMENT with ground atoms of p, q and of the table r no call         *)
(* mentions otherwise.                                                        *)

\* MaterializedViewTheory.explain has returned
Explain(th, query) ==
    /\ pc = "idle"
    /\ ret' = MaterializedViewTheory_explain(World, th, query)
    /\ op' = [name |-> "explain", theory |-> th, query |-> query]
    /\ UNCHANGED <<data, delta, queue, contents, includes, logger, pc>>

NextExplain ==
    \/ FacadeInsert(R_pq, "Clas")
    \/ FacadeDelete(R_pq, "Clas")
    \/ \E atom \in UnaryAtoms({"q"}, MaxConstPQR) : FacadeInsert(atom, "None")
    \/ \E atom \in UnaryAtoms({"q"}, MaxConstPQR) : FacadeDelete(atom, "None")
    \/ \E th \in MaterializedObjs, query \in UnaryAtoms({"p", "q", "r"}, MaxConstPQR) :
          Explain(th, query)

SpecExplain == Init /\ [][NextExplain]_vars

\* C20: explain(query) has returned None exactly when the ground atom query
\* is not stored in the theory's database, a query on a table never
\* populated included; otherwise it has returned a list of one proof tree
\* whose root is query.
C20_ExplainNone ==
    op.name = "explain" =>
        /\ ret.none <=> op.query.args[1].val \notin Stored(database(op.theory), op.query.table)
        /\ ~ret.none => (Len(ret.value) = 1 /\ ret.value[1].root = op.query)

-----------------------------------------------------------------------------
(* SpecFirst: the rules p(x) :- q(x) and p(x) :- q(x), q(y) and q facts in  *)
(* ACTION, q facts in DATABASE through the facade, and select and abduce    *)
(* called on ACTION and CLASSIFY with find_all true and false.  A q fact    *)
(* held by ACTION and by DATABASE, or two rules for p, give a query more    *)
(* than one answer.                                                         *)

FirstQueries == {Atom("q", <<x>>), Atom("p", <<x>>), R_sqq}

NextFirst ==
    \/ \E rule \in {R_pq, R_pqq} : FacadeInsert(rule, "Act")
    \/ \E rule \in {R_pq, R_pqq} : FacadeDelete(rule, "Act")
    \/ \E atom \in UnaryAtoms({"q"}, MaxConstPQR), target \in {"Act", "None"} :
          FacadeInsert(atom, target)
    \/ \E atom \in UnaryAtoms({"q"}, MaxConstPQR), target \in {"Act", "None"} :
          FacadeDelete(atom, target)
    \/ \E th \in {"Act", "Clas"}, query \in FirstQueries, find_all \in BOOLEAN :
          QuerySelect(th, query, find_all)
    \/ \E th \in {"Act", "Clas"}, query \in FirstQueries, find_all \in BOOLEAN :
          QueryAbduce(th, query, find_all)

SpecFirst == Init /\ [][NextFirst]_vars

\* what the call recorded in op returns when it is made with find_all=True,
\* in the order the search finds the answers
AllAnswers ==
    IF op.name = "select"
    THEN call("select", <<World, op.theory, op.query, TRUE>>).results
    ELSE call("abduce", <<World, op.theory, op.query, {"q"}, TRUE>>).results

\* C24: select and abduce with find_all=False return at most one result and
\* exactly one when an answer exists: the answer the search finds first,
\* every frame (rule loop, included theories, remaining literals) stopping
\* at its first success.
C24_FirstAnswerOnly ==
    (op.name \in {"select", "abduce"} /\ ~op.find_all) =>
        /\ Len(ret) <= 1
        /\ Len(ret) = 1 <=> AllAnswers # <<>>
        /\ Len(ret) = 1 => ret[1] = AllAnswers[1]

\* select(p(x), find_all=False) on ACTION has returned one answer where
\* find_all=True returns more than two
C24_Witness ==
    /\ op.name = "select" /\ op.theory = "Act" /\ ~op.find_all
    /\ op.query = Atom("p", <<x>>)
    /\ Len(ret) = 1
    /\ Len(AllAnswers) > 2

-----------------------------------------------------------------------------
(* SpecUnifier: the rule r(x, y) :- e(x, y) in ACTION, the facts e(1, b) in *)
(* DATABASE through the facade, top_down_abduction called on ACTION and on  *)
(* DATABASE with a binding that is empty or binds y, and DBTuple.match      *)
(* called with the stored tuples.  ret holds what the call returned and the *)
(* binding as the call left it.                                             *)

EdgeAtoms == {Atom("e", <<C(1), C(b)>>) : b \in 1..MaxConst}

\* the bindings passed in: nothing bound, y bound to 1
Bindings == {EmptyStore, add(EmptyStore, y, 0, C(1), 0)}

UnifierLiterals ==
    {<<Atom("e", <<x, y>>)>>, <<Atom("e", <<x, x>>)>>, <<Atom("r", <<x, C(2)>>)>>,
     <<Atom("e", <<x, y>>), Atom("e", <<y, x>>)>>,
     <<Atom("e", <<x, y>>), Not(Atom("e", <<y, x>>))>>}

TopDownAbduction(th, literals, binding, find_all, save) ==
    LET Returns(r) ==
            /\ ~r.error
            /\ ret' = [results |-> r.results, binding |-> r.store]
    IN  /\ pc = "idle"
        /\ Returns(call("top_down_abduction",
                        <<World, th, {"x", "y"}, literals, binding, 0, find_all, save>>))
        /\ op' = [name |-> "top_down_abduction", theory |-> th,
                  literals |-> literals, binding |-> binding, find_all |-> find_all]
        /\ UNCHANGED <<data, delta, queue, contents, includes, logger, pc>>

Match(dbtuple, atom, binding) ==
    LET Returns(r) ==
            ret' = [ok |-> r.ok, changes |-> r.changes, binding |-> r.store]
    IN  /\ pc = "idle"
        /\ Returns(DBTuple_match(dbtuple, atom, 0, binding))
        /\ op' = [name |-> "match", atom |-> atom, binding |-> binding]
        /\ UNCHANGED <<data, delta, queue, contents, includes, logger, pc>>

NextUnifier ==
    \/ FacadeInsert(R_re, "Act")
    \/ FacadeDelete(R_re, "Act")
    \/ \E atom \in EdgeAtoms : FacadeInsert(atom, "None")
    \/ \E atom \in EdgeAtoms : FacadeDelete(atom, "None")
    \/ \E th \in {"Act", "DB"}, literals \in UnifierLiterals, binding \in Bindings,
          find_all \in BOOLEAN, save \in {NoSave, [on |-> TRUE, tables |-> {"e"}]} :
          TopDownAbduction(th, literals, binding, find_all, save)
    \/ \E i \in 1..Len(Rows("DB", "e")), literals \in UnifierLiterals,
          binding \in Bindings :
          Match(Rows("DB", "e")[i], literals[1], binding)

SpecUnifier == Init /\ [][NextUnifier]_vars

\* C25: when top_down_abduction (and so top_down_evaluation) returns, the
\* binding passed in holds exactly the bindings it held at the start, with
\* find_all true and false, with and without answers; a DBTuple.match that
\* fails leaves the binding without the bindings it had added.
C25_BindingRestored ==
    /\ op.name = "top_down_abduction" => ret.binding = op.binding
    /\ (op.name = "match" /\ ~ret.ok) => ret.binding = op.binding

\* top_down_abduction of r(x, 2) on ACTION with find_all has returned an
\* answer through the rule, after the match of e(1, 1) had bound x and
\* failed on the second argument
C25_Witness ==
    /\ op.name = "top_down_abduction" /\ op.theory = "Act" /\ op.find_all
    /\ op.literals = <<Atom("r", <<x, C(2)>>)>>
    /\ op.binding = EmptyStore
    /\ Len(ret.results) = 1
    /\ Stored("DB", "e") = {1}
    /\ Len(Rows("DB", "e")) = 2

-----------------------------------------------------------------------------
(* SpecNegation: the rules s(x) :- t(x), not u(x) and u(x) :- q(x) in       *)
(* ACTION, the facts t(c), u(c) and q(c) through the facade, and select     *)
(* called on ACTION.  ACTION includes CLASSIFY, which includes DATABASE.    *)

R_uq == Rule(Atom("u", <<x>>), <<Atom("q", <<x>>)>>)

NextNegation ==
    \/ \E rule \in {R_s, R_uq} : FacadeInsert(rule, "Act")
    \/ \E rule \in {R_s, R_uq} : FacadeDelete(rule, "Act")
    \/ \E atom \in UnaryAtoms({"t", "u", "q"}, MaxConstPQR) : FacadeInsert(atom, "None")
    \/ \E atom \in UnaryAtoms({"t", "u", "q"}, MaxConstPQR) : FacadeDelete(atom, "None")
    \/ \E query \in {Atom("s", <<x>>), Atom("u", <<x>>), Atom("t", <<x>>)},
          find_all \in BOOLEAN :
          QuerySelect("Act", query, find_all)

SpecNegation == Init /\ [][NextNegation]_vars

\* C26: a negated body literal succeeds iff its complement has no proof in
\* the theory the query was issued on and the theories it includes: with
\* s(x) :- t(x), not u(x) as the only rule for s, select(s(x)) on a theory
\* returns s(c) exactly for the c with t(c) provable and u(c) not provable
\* on that theory.
C26_NegationAtRoot ==
    (op.name = "select" /\ op.query = Atom("s", <<x>>) /\ op.find_all
        /\ R_s \in AsSet(head_index(World, "Act", "s"))) =>
        {ret[i].args[1].val : i \in 1..Len(ret)} =
            Selected(op.theory, "t") \ Selected(op.theory, "u")

-----------------------------------------------------------------------------
(* SpecGround: the rule v(x) :- not u(x) in ACTION, the facts t(c) and u(c) *)
(* through the facade, and select and abduce (saving table u) called on     *)
(* ACTION and CLASSIFY with queries that meet a negated literal with and    *)
(* without a binding for its variable.  A call that fails an assertion      *)
(* returns nothing: op.raised records it and ret is the empty list.         *)

R_v == Rule(Atom("v", <<x>>), <<Not(Atom("u", <<x>>))>>)

\* s(x) :- not u(x)
Q_unbound == Rule(Atom("s", <<x>>), <<Not(Atom("u", <<x>>))>>)

\* s(x, y) :- t(x), not u(y)
Q_other == Rule(Atom("s", <<x, y>>), <<Atom("t", <<x>>), Not(Atom("u", <<y>>))>>)

GroundQueries == {Q_unbound, Q_other, R_s, Atom("v", <<x>>), Atom("v", <<C(1)>>)}

\* a search that answers with the empty list where the code raises
Searched_swallow(name, th, query, find_all, r) ==
    /\ pc = "idle"
    /\ ret' = IF r.error THEN <<>> ELSE r.results
    /\ op' = [name |-> name, theory |-> th, query |-> query, find_all |-> find_all,
              raised |-> FALSE]
    /\ UNCHANGED <<data, delta, queue, contents, includes, logger, pc>>

\* select / abduce has returned its list or has raised
Searched(name, th, query, find_all, r) ==
    /\ pc = "idle"
    /\ ret' = IF r.error THEN <<>> ELSE r.results
    /\ op' = [name |-> name, theory |-> th, query |-> query, find_all |-> find_all,
              raised |-> r.error]
    /\ UNCHANGED <<data, delta, queue, contents, includes, logger, pc>>

NextGround ==
    \/ FacadeInsert(R_v, "Act")
    \/ FacadeDelete(R_v, "Act")
    \/ \E atom \in UnaryAtoms({"t", "u"}, MaxConstPQR) : FacadeInsert(atom, "None")
    \/ \E atom \in UnaryAtoms({"t", "u"}, MaxConstPQR) : FacadeDelete(atom, "None")
    \/ \E th \in {"Act", "Clas"}, query \in GroundQueries, find_all \in BOOLEAN :
          Searched("select", th, query, find_all,
                   call("select", <<World, th, query, find_all>>))
    \/ \E th \in {"Act", "Clas"}, query \in GroundQueries, find_all \in BOOLEAN :
          Searched("abduce", th, query, find_all,
                   call("abduce", <<World, th, query, {"u"}, find_all>>))

SpecGround == Init /\ [][NextGround]_vars

\* the search of the call recorded in op evaluates a negated literal whose
\* variable has no binding: abduce saves the literals of u and evaluates
\* none; select meets not u(x) at once in s(x) :- not u(x), after an answer
\* for t(x) in s(x, y) :- t(x), not u(y), and through the rule
\* v(x) :- not u(x) of ACTION for the query v(x)
MeetsUngroundNegation ==
    /\ op.name = "select"
    /\ \/ op.query = Q_unbound
       \/ op.query = Q_other /\ Selected(op.theory, "t") # {}
       \/ /\ op.query = Atom("v", <<x>>)
          /\ op.theory = "Act"
          /\ R_v \in AsSet(head_index(World, "Act", "v"))

\* C27: a search that evaluates a negated literal that is not ground under
\* the current binding raises, and a search raises in no other case; a
\* search that raises yields no answer.
C27_UngroundNegationRaises ==
    op.name \in {"select", "abduce"} =>
        /\ op.raised <=> MeetsUngroundNegation
        /\ op.raised => ret = <<>>

\* select of s(x, y) :- t(x), not u(y) on ACTION has raised with t(1) stored
C27_Witness ==
    /\ op.name = "select" /\ op.theory = "Act" /\ op.query = Q_other
    /\ op.raised
    /\ Stored("DB", "t") = {1}

-----------------------------------------------------------------------------
(* SpecAbduce: the rule p(x) :- q(x) and t facts in ACTION, t and q facts   *)
(* through the facade, and abduce(query, {"q"}) called on ACTION and        *)
(* CLASSIFY.  ret holds the rules returned and the support list as the call *)
(* left it.                                                                 *)

\* s(x) :- t(x), q(x)
Q_tq == Rule(Atom("s", <<x>>), <<Atom("t", <<x>>), Atom("q", <<x>>)>>)

\* s(1) :- not p(1)
Q_notp == Rule(Atom("s", <<C(1)>>), <<Not(Atom("p", <<C(1)>>))>>)

AbduceQueries == {Atom("q", <<x>>), Atom("p", <<x>>), Q_tq, Q_notp}

Abduce(th, query, find_all) ==
    LET Returns(r) ==
            /\ ~r.error
            /\ ret' = [results |-> r.results, support |-> r.support]
    IN  /\ pc = "idle"
        /\ Returns(call("abduce", <<World, th, query, {"q"}, find_all>>))
        /\ op' = [name |-> "abduce", theory |-> th, query |-> query,
                  find_all |-> find_all]
        /\ UNCHANGED <<data, delta, queue, contents, includes, logger, pc>>

NextAbduce ==
    \/ FacadeInsert(R_pq, "Act")
    \/ FacadeDelete(R_pq, "Act")
    \/ \E atom \in UnaryAtoms({"t"}, MaxConstPQR), target \in {"Act", "None"} :
          FacadeInsert(atom, target)
    \/ \E atom \in UnaryAtoms({"t"}, MaxConstPQR), target \in {"Act", "None"} :
          FacadeDelete(atom, target)
    \/ \E atom \in UnaryAtoms({"q"}, MaxConstPQR) : FacadeInsert(atom, "None")
    \/ \E atom \in UnaryAtoms({"q"}, MaxConstPQR) : FacadeDelete(atom, "None")
    \/ \E th \in {"Act", "Clas"}, query \in AbduceQueries, find_all \in BOOLEAN :
          Abduce(th, query, find_all)

SpecAbduce == Init /\ [][NextAbduce]_vars

\* p(x) :- q(x) is a rule of the theory the call recorded in op was made on
RuleForP == op.theory = "Act" /\ R_pq \in AsSet(head_index(World, "Act", "p"))

\* the rules abduce(op.query, {"q"}, find_all=True) is to return on
\* op.theory: the literals of q are saved unresolved, whatever q facts are
\* stored; t is resolved, one rule per answer; p(1) under the negation is
\* resolved through the rule and the stored q facts, and nothing is saved
ExpectedAbduction ==
    LET ts == Select(op.theory, Atom("t", <<x>>))
    IN  CASE op.query = Atom("q", <<x>>) ->
                <<Rule(Atom("q", <<x>>), <<Atom("q", <<x>>)>>)>>
          [] op.query = Atom("p", <<x>>) ->
                IF RuleForP THEN <<Rule(Atom("p", <<x>>), <<Atom("q", <<x>>)>>)>>
                ELSE <<>>
          [] op.query = Q_tq ->
                [i \in 1..Len(ts) |->
                    Rule(Atom("s", ts[i].args), <<Atom("q", ts[i].args)>>)]
          [] op.query = Q_notp ->
                IF RuleForP /\ 1 \in Selected(op.theory, "q") THEN <<>>
                ELSE <<Rule(Atom("s", <<C(1)>>), <<>>)>>

\* C28: abduce(query, tablenames) saves the literals of the tables in
\* tablenames instead of resolving them, returns for every proof the rule
\* made of the proven instance of the query's head and the literals saved on
\* that proof, saves nothing while it resolves a negated literal, and leaves
\* the support list empty.
C28_AbduceSaves ==
    op.name = "abduce" =>
        /\ ret.results = IF op.find_all \/ ExpectedAbduction = <<>>
                         THEN ExpectedAbduction
                         ELSE <<ExpectedAbduction[1]>>
        /\ ret.support = <<>>

\* abduce(s(x) :- t(x), q(x)) on ACTION has returned s(1) :- q(1) for the
\* t(1) of ACTION and for the t(1) of the databases, with q(1) stored
C28_Witness ==
    /\ op.name = "abduce" /\ op.theory = "Act" /\ op.find_all
    /\ op.query = Q_tq
    /\ Len(ret.results) > 1
    /\ ret.results[1] = Rule(Atom("s", <<C(1)>>), <<Atom("q", <<C(1)>>)>>)
    /\ Stored("DB", "q") = {1}

-----------------------------------------------------------------------------
(* SpecIndex: DeltaRuleTheory.modify called on the delta rules of CLASSIFY  *)
(* with the rules process_queue hands over for p(x) :- q(x), s(x) :- p(x),  *)
(* r(x, z) :- r(x, y), e(y, z), p(x) :- q(x), q(y) and s(x) :- q(x), q(y):  *)
(* enqueue_with_included runs eliminate_self_joins on a rule and enqueues   *)
(* one Rule event per rule of the result, so the last two arrive renamed,   *)
(* each with the wrapping rule of the synthetic table, in any order.        *)

IndexRules ==
    {R_pq, R_sp, R_rre} \cup AsSet(eliminate_self_joins(<<R_pqq>>))
                        \cup AsSet(eliminate_self_joins(<<R_sqq>>))

DeltaModify(rule, is_insert) ==
    LET Modified(r) ==
            /\ delta' = [delta EXCEPT !["Clas"] = r.dr]
            /\ ret' = r.changes
    IN  /\ pc = "idle"
        /\ Modified(DeltaRuleTheory_modify(delta["Clas"], rule, is_insert))
        /\ op' = [name |-> "modify", rule |-> rule, insert |-> is_insert]
        /\ UNCHANGED <<data, queue, contents, includes, logger, pc>>

NextIndex == \E rule \in IndexRules, is_insert \in BOOLEAN : DeltaModify(rule, is_insert)

SpecIndex == Init /\ [][NextIndex]_vars

\* the tables of a rule
RuleTables(rule) == {rule.head.table} \cup {rule.body[i].table : i \in 1..Len(rule.body)}

\* the installed delta rules with head table t, counted over the trigger index
DeltasWithHead(dr, t) ==
    LET Count(n, table) ==
            n + Cardinality({i \in 1..Len(dr.contents[table]) :
                                dr.contents[table][i].head.table = t})
    IN  FoldSet(Count, 0, DOMAIN dr.contents)

IndexConsistent(dr) ==
    LET heads == {rule.head.table : rule \in dr.originals}
        tables == UNION {RuleTables(rule) : rule \in dr.originals}
    IN  /\ \A t \in tables \cup DOMAIN dr.views \cup DOMAIN dr.all_tables :
              /\ is_view(dr, t) <=> t \in heads
              /\ is_view(dr, t) => dr.views[t] = DeltasWithHead(dr, t)
        /\ base_tables(dr) = tables \ heads

\* insert followed by delete of the same rule gives back views, all_tables
\* and originals
InsertDeleteRestores(dr, rule) ==
    LET after == DeltaRuleTheory_delete(DeltaRuleTheory_insert(dr, rule).dr, rule).dr
    IN  /\ after.views = dr.views
        /\ after.all_tables = dr.all_tables
        /\ after.originals = dr.originals

\* a modify that inserts an installed rule or deletes a rule that is not
\* installed returns the empty list and leaves the theory as it was
Idempotent ==
    (op'.name = "modify" /\ (op'.insert <=> op'.rule \in delta["Clas"].originals)) =>
        (delta' = delta /\ ret' = <<>>)

\* C29: after any sequence of rule inserts and deletes is_view(t) holds iff
\* an installed rule has head t, views[t] is the number of installed delta
\* rules with head t, base_tables() is the set of tables of installed rules
\* that are no rule's head, inserting an installed rule or deleting a rule
\* that is not installed changes nothing, and insert followed by delete of
\* a rule restores views, all_tables and originals.
C29_DeltaIndex ==
    /\ [](IndexConsistent(delta["Clas"]))
    /\ [](\A rule \in IndexRules \ delta["Clas"].originals :
            InsertDeleteRestores(delta["Clas"], rule))
    /\ [][Idempotent]_vars

\* p(x) :- q(x) has been inserted a second time, next to the renamed
\* p(x) :- q(x), q(y), its wrapping rule and s(x) :- p(x): p is the head of
\* three delta rules, s of one, the synthetic table of one
C29_Witness ==
    /\ op.name = "modify" /\ op.insert /\ op.rule = R_pq
    /\ ret = <<>>
    /\ delta["Clas"].originals = {R_pq, R_sp} \cup AsSet(eliminate_self_joins(<<R_pqq>>))
    /\ delta["Clas"].views = ("p" :> 3) @@ ("s" :> 1) @@ (new_table_name("q", 1, 1) :> 1)
    /\ base_tables(delta["Clas"]) = {"q"}

-----------------------------------------------------------------------------
(* SpecOrder: MaterializedViewTheory.modify called on CLASSIFY with the     *)
(* rules p(x) :- q(x) and s(x) :- p(x) and q atoms, the body of the loop of *)
(* process_queue taken statement by statement: pc is "propagate" when an    *)
(* event has been dequeued and "write" when self.propagate(event) has       *)
(* returned and self.database.modify is next.  op holds the event, and      *)
(* after propagate the events it enqueued.                                  *)

\* a Rule event: self.delta_rules.modify, extending the history
OrderRule ==
    /\ pc = "propagate"
    /\ ~is_atom(op.event.formula)
    /\ \E r \in {DeltaRuleTheory_modify(delta["Clas"], op.event.formula,
                                        op.event.insert)} :
          /\ delta' = [delta EXCEPT !["Clas"] = r.dr]
          /\ ret' = ret \o r.changes
    /\ pc' = "process_queue"
    /\ op' = [name |-> "rule", event |-> op.event]
    /\ UNCHANGED <<data, queue, contents, includes, logger>>

\* a data event: self.propagate(event)
OrderPropagate ==
    /\ pc = "propagate"
    /\ is_atom(op.event.formula)
    /\ \E p \in {propagate(World, "Clas", op.event)} :
          /\ ~p.error
          /\ queue' = [queue EXCEPT !["Clas"] = @ \o p.events]
          /\ op' = [name |-> "propagate", event |-> op.event, derived |-> p.events]
    /\ pc' = "write"
    /\ UNCHANGED <<data, delta, contents, includes, logger, ret>>

\* history.extend(self.database.modify(event.formula, ...))
OrderWrite ==
    /\ pc = "write"
    /\ \E m \in {Database_modify(data["ClasDB"], op.event.formula, op.event.insert,
                                  op.event.proofs)} :
          /\ data' = [data EXCEPT !["ClasDB"] = m.data]
          /\ ret' = ret \o m.changes
    /\ pc' = "process_queue"
    /\ op' = [name |-> "write", event |-> op.event]
    /\ UNCHANGED <<delta, queue, contents, includes, logger>>

NextOrder ==
    \/ \E rule \in {R_pq, R_sp}, is_insert \in BOOLEAN : QCall(rule, is_insert)
    \/ \E atom \in UnaryAtoms({"q"}, MaxConst), is_insert \in BOOLEAN :
          QCall(atom, is_insert)
    \/ QDequeue
    \/ OrderRule
    \/ OrderPropagate
    \/ OrderWrite
    \/ QReturn

SpecOrder == Init /\ [][NextOrder]_vars

\* seq is pre followed by more elements
IsPrefix(pre, seq) == Len(pre) <= Len(seq) /\ SubSeq(seq, 1, Len(pre)) = pre

\* the queue changes at its two ends only: a dequeue takes the event
\* enqueued first, every other step appends
FirstInFirstOut ==
    /\ op'.name = "dequeue" =>
          (op'.event = Head(queue["Clas"]) /\ queue'["Clas"] = Tail(queue["Clas"]))
    /\ op'.name # "dequeue" => IsPrefix(queue["Clas"], queue'["Clas"])

\* propagate enqueues what the delta rules derive from the database as it
\* was when the event was dequeued and writes nothing; the write of the
\* event follows it and enqueues nothing
PropagateThenWrite ==
    /\ op'.name = "propagate" =>
          /\ op.name = "dequeue" /\ op'.event = op.event
          /\ data' = data
          /\ op'.derived = propagate(World, "Clas", op.event).events
          /\ queue'["Clas"] = queue["Clas"] \o op'.derived
    /\ op'.name = "write" =>
          /\ op.name = "propagate" /\ op'.event = op.event
          /\ queue' = queue
          /\ data'["ClasDB"] = Database_modify(data["ClasDB"], op.event.formula,
                                               op.event.insert, op.event.proofs).data

\* C30: process_queue dequeues the events in the order they were enqueued,
\* and for every data event the events it derives are enqueued before the
\* event is written to the theory's database, the delta rule bodies being
\* evaluated against the database without the event's change.
C30_EventOrder == [][FirstInFirstOut /\ PropagateThenWrite]_vars

\* the insert of q(1) has been propagated through p(x) :- q(x): the insert
\* of p(1) is in the queue and q(1) is not yet in CLASSIFY's database
C30_Witness ==
    /\ pc = "write"
    /\ op.name = "propagate"
    /\ op.event.insert /\ op.event.formula = Atom("q", <<C(1)>>)
    /\ Len(op.derived) = 1
    /\ queue["Clas"] = op.derived
    /\ Stored("ClasDB", "q") = {}

-----------------------------------------------------------------------------
(* Rule modifications under SpecOrder: the events enqueue_with_included     *)
(* puts in the queue for a rule, and the state of the delta rules when a    *)
(* head event comes out of the queue.                                       *)

\* the positions of the Rule events in the queue of CLASSIFY
RuleEventsAt(q) == {k \in 1..Len(q) : ~is_atom(q[k].formula)}

\* the head atoms of rule that the stored q and p tuples give
HeadInstances(rule) ==
    {Atom(rule.head.table, <<C(c)>>) : c \in Stored("ClasDB", rule.body[1].table)}

\* q is the queue a call for a rule leaves: on insert the Rule event and then
\* one insert per head instance, on delete one delete per head instance and
\* then the Rule event, every head event carrying proofs by that rule
RuleThenHeads(q) ==
    \A k \in RuleEventsAt(q) :
        LET rule == q[k].formula
            heads == {j \in 1..Len(q) : j # k}
        IN  /\ k = IF q[k].insert THEN 1 ELSE Len(q)
            /\ {q[j].formula : j \in heads} = HeadInstances(rule)
            /\ Len(q) = 1 + Cardinality(HeadInstances(rule))
            /\ \A j \in heads :
                  /\ q[j].insert = q[k].insert
                  /\ q[j].proofs # <<>>
                  /\ \A i \in 1..Len(q[j].proofs) : q[j].proofs[i].rule = rule

RuleEventOrder == (op'.name = "modify") => RuleThenHeads(queue'["Clas"])

\* a dequeued data event that carries proofs finds the rules of its proofs
\* installed and its table a view
HeadEventFindsRule ==
    (pc = "propagate" /\ is_atom(op.event.formula) /\ op.event.proofs # <<>>) =>
        /\ is_view(delta["Clas"], op.event.formula.table)
        /\ \A i \in 1..Len(op.event.proofs) :
              op.event.proofs[i].rule \in delta["Clas"].originals

\* the ordering alone, which the code keeps
C31_OrderOnly == [][RuleEventOrder]_vars

\* C31: a rule insert enqueues the Rule event before the head events
\* synthesized from the database and a rule delete enqueues the head deletes
\* before the Rule event, so that whenever a synthesized head event is
\* processed its rule is installed in the delta rules and its table is a view.
C31_RuleInstalledForHeads == [][RuleEventOrder]_vars /\ []HeadEventFindsRule

-----------------------------------------------------------------------------
(* SpecPolarity: the loop of process_queue taken statement by statement, as *)
(* in SpecOrder, on CLASSIFY with the rules s(x) :- t(x), not u(x) and      *)
(* p(x) :- t(x), e(x,y) inserted at any time, the atoms t(1) and u(1) and   *)
(* the atoms e(1,b) over 1..MaxConst.                                       *)

R_pte == Rule(Atom("p", <<x>>), <<Atom("t", <<x>>), Atom("e", <<x, y>>)>>)

NextPolarity ==
    \/ \E rule \in {R_s, R_pte} : QCall(rule, TRUE)
    \/ \E atom \in UnaryAtoms({"t", "u"}, 1) \cup EdgeAtoms,
          is_insert \in BOOLEAN : QCall(atom, is_insert)
    \/ QDequeue
    \/ OrderRule
    \/ OrderPropagate
    \/ OrderWrite
    \/ QReturn

SpecPolarity == Init /\ [][NextPolarity]_vars

\* the literal, its variables replaced, is true of CLASSIFY's database
HoldsInClas(lit, binding) ==
    LET atom == plug_dict(lit, binding)
    IN  IsStored(Rows("ClasDB", atom.table), argument_names(atom)) # lit.neg

\* the bindings of the rule's variables under which the k-th literal of the
\* body is the event's atom and the rest of the body is true
TriggeredBindings(rule, k, event) ==
    {b \in [variables(rule) -> {C(c) : c \in 1..MaxConst}] :
        /\ make_positive(plug_dict(rule.body[k], b)) = event.formula
        /\ \A j \in (1..Len(rule.body)) \ {k} : HoldsInClas(rule.body[j], b)}

\* the installed rules and the body positions a change of table triggers
Triggers(table) ==
    {rk \in delta["Clas"].originals \X (1..MaxBody) :
        rk[2] <= Len(rk[1].body) /\ rk[1].body[rk[2]].table = table}

\* what propagating the event through the k-th literal of the rule derives:
\* one event per head atom, with the polarity of the event (flipped if the
\* literal is negated) and one proof per binding giving that atom
DerivedThrough(rule, k, event) ==
    LET bs == TriggeredBindings(rule, k, event)
        heads == {plug_dict(rule.head, b) : b \in bs}
    IN  {[formula |-> h,
          insert |-> IF rule.body[k].neg THEN ~event.insert ELSE event.insert,
          proofs |-> {Proof(b, rule) : b \in {c \in bs : plug_dict(rule.head, c) = h}}]
         : h \in heads}

\* an enqueued event with its proofs as a set: a binding that the search
\* returns twice, from the theory's database and from an included one, is
\* listed twice
AsDerived(ev) ==
    [formula |-> ev.formula, insert |-> ev.insert, proofs |-> AsSet(ev.proofs)]

PolarityOfDerived ==
    (op'.name = "propagate") =>
        LET event == op'.event
            derived == op'.derived
            expected == UNION {DerivedThrough(rk[1], rk[2], event) :
                                  rk \in Triggers(event.formula.table)}
        IN  /\ {AsDerived(derived[i]) : i \in 1..Len(derived)} = expected
            /\ Len(derived) = Cardinality(expected)

\* C32: an event propagated through a delta rule with a positive trigger
\* yields head events of its own polarity, through a negated trigger head
\* events of the opposite polarity, and each head event carries one
\* Proof(binding, original rule) per binding that produced its atom.
C32_DerivedPolarity == [][PolarityOfDerived]_vars

\* the insert of u(1) has been propagated through s(x) :- t(x), not u(x)
\* and derived the delete of s(1)
C32_Witness ==
    /\ pc = "write"
    /\ op.name = "propagate"
    /\ op.event.insert
    /\ op.event.formula = Atom("u", <<C(1)>>)
    /\ \E i \in 1..Len(op.derived) :
          /\ op.derived[i].formula = Atom("s", <<C(1)>>)
          /\ ~op.derived[i].insert
          /\ AsSet(op.derived[i].proofs) = {Proof("x" :> C(1), R_s)}

\* the insert of t(1) has been propagated through p(x) :- t(x), e(x,y) and
\* derived p(1) with the proofs through e(1,1) and e(1,2)
TwoProofsDerived ==
    /\ pc = "write"
    /\ op.name = "propagate"
    /\ op.event.insert
    /\ op.event.formula = Atom("t", <<C(1)>>)
    /\ \E i \in 1..Len(op.derived) :
          /\ op.derived[i].formula = Atom("p", <<C(1)>>)
          /\ op.derived[i].insert
          /\ Cardinality(AsSet(op.derived[i].proofs)) = 2

-----------------------------------------------------------------------------
(* SpecRules: insert, delete and define called on the NonrecursiveRuleTheory *)
(* ACTION with the rules p(x) :- q(x), p(x) :- r(x), s(x) :- p(x) and the   *)
(* atom p(1), which the theory stores as a rule without a body; define is   *)
(* called with every list of at most MaxSeq of them, repeats included.  op  *)
(* records the call, whether the rule was in the theory and the rules the   *)
(* theory held; ret is what the call returned.                              *)

RuleFormulas == {R_pq, R_pr, R_sp, Atom("p", <<C(1)>>)}

RuleLists == UNION {[1..n -> RuleFormulas] : n \in 0..MaxSeq}

RuleInsert(formula) ==
    /\ \E r \in {NonrecursiveRuleTheory_insert(contents["Act"], formula)} :
          /\ contents' = [contents EXCEPT !["Act"] = r.contents]
          /\ ret' = r.changes
    /\ op' = [name |-> "insert", formula |-> formula,
              present |-> as_rule(formula) \in RulesOf("Act"),
              before |-> RulesOf("Act")]
    /\ UNCHANGED <<data, delta, queue, includes, logger, pc>>

RuleDelete(formula) ==
    /\ \E r \in {NonrecursiveRuleTheory_delete(contents["Act"], formula)} :
          /\ contents' = [contents EXCEPT !["Act"] = r.contents]
          /\ ret' = r.changes
    /\ op' = [name |-> "delete", formula |-> formula,
              present |-> as_rule(formula) \in RulesOf("Act"),
              before |-> RulesOf("Act")]
    /\ UNCHANGED <<data, delta, queue, includes, logger, pc>>

\* self.empty() and one insert per rule; define returns nothing
RuleDefine(rules) ==
    /\ contents' = [contents EXCEPT !["Act"] = define(EmptyDict, rules, 1)]
    /\ ret' = <<>>
    /\ op' = [name |-> "define", rules |-> rules]
    /\ UNCHANGED <<data, delta, queue, includes, logger, pc>>

NextRules ==
    \/ \E formula \in RuleFormulas : RuleInsert(formula)
    \/ \E formula \in RuleFormulas : RuleDelete(formula)
    \/ \E rules \in RuleLists : RuleDefine(rules)

SpecRules == Init /\ [][NextRules]_vars

\* no list of the theory holds a rule twice
RulesUnique == \A t \in DOMAIN contents["Act"] : NoDuplicates(contents["Act"][t])

\* what insert and delete return, and what they and define leave
RuleChanges ==
    /\ op.name = "insert" =>
          /\ ret = IF op.present THEN <<>> ELSE <<as_rule(op.formula)>>
          /\ RulesOf("Act") = op.before \cup {as_rule(op.formula)}
    /\ op.name = "delete" =>
          /\ ret = IF op.present THEN <<as_rule(op.formula)>> ELSE <<>>
          /\ RulesOf("Act") = op.before \ {as_rule(op.formula)}
    /\ op.name = "define" =>
          RulesOf("Act") = {as_rule(op.rules[i]) : i \in 1..Len(op.rules)}

\* the delete of a rule right after the insert that added it
InsertThenDelete ==
    (/\ op.name = "insert" /\ ~op.present
     /\ op'.name = "delete" /\ op'.formula = op.formula) =>
        RulesOf("Act")' = op.before

\* C33: after any sequence of insert, delete and define no head-table list
\* of a NonrecursiveRuleTheory holds two equal rules; insert returns [rule]
\* iff the rule was absent and delete returns [rule] iff it was present, and
\* the insert of an absent rule followed by its delete restores the set of
\* rules.
C33_RuleLists == [](RulesUnique /\ RuleChanges) /\ [][InsertThenDelete]_vars

\* p(x) :- q(x) has been inserted a second time, next to another rule for p,
\* and the insert returned nothing
C33_Witness ==
    /\ op.name = "insert" /\ op.present /\ op.formula = R_pq
    /\ ret = <<>>
    /\ Len(contents["Act"]["p"]) = 2

-----------------------------------------------------------------------------
(* SpecProject: Runtime.project called, as simulate calls it, with update   *)
(* sequences on q(1) and r(1), the rules p(x) :- q(x), p(x) :- r(x) and     *)
(* s(x) :- p(x) being installed in CLASSIFY.  The updates of a projection   *)
(* stay applied, which is how the q and r atoms come and go.  ret is the    *)
(* undo sequence project returned.                                          *)

\* the atom updates q+(1), q-(1), r+(1), r-(1) in sequences of at most
\* MaxSeq, and the rule updates alone
ProjectSequences ==
    UNION {[1..n -> {u \in AtomUpdates : u.args = <<C(1)>>}] : n \in 1..MaxSeq}
        \cup {<<u>> : u \in RuleUpdates}

\* Runtime.project has returned its undos; a call that raises is no step
Project(sequence) ==
    LET Projected(r) == ~r.error /\ SetWorld(r.w) /\ ret' = r.undos
    IN  /\ pc = "idle"
        /\ Projected(call("project", <<World, sequence>>))
        /\ op' = [name |-> "project", sequence |-> sequence]
        /\ UNCHANGED pc

NextProject ==
    \/ \E rule \in SimRules : FacadeInsert(rule, "Clas")
    \/ \E sequence \in ProjectSequences :
          Installed(SimRules) /\ Project(sequence)

SpecProject == Init /\ [][NextProject]_vars

\* what CLASSIFY holds in world w: the tuples of its database with their
\* proof sets, and its rules
ClassifyOf(w) ==
    <<UNION {{<<t, w.data["ClasDB"][t][i].tuple, AsSet(w.data["ClasDB"][t][i].proofs)>> :
                i \in 1..Len(w.data["ClasDB"][t])} : t \in DOMAIN w.data["ClasDB"]},
      w.delta["Clas"].originals>>

\* the inverted forms of the updates sequence[i..] that change what CLASSIFY
\* holds when they are applied to it in order, in that order
RECURSIVE ChangingInverted(_, _, _)
ChangingInverted(w, sequence, i) ==
    IF i > Len(sequence) THEN <<>>
    ELSE LET after == call("MaterializedViewTheory_modify",
                           <<w, "Clas", FormulaOf(sequence[i]),
                             DirectOf(sequence[i])[2]>>).w
             sign == IF DirectOf(sequence[i])[2] THEN "-" ELSE "+"
             inverted == WithTable(sequence[i], DirectOf(sequence[i])[1] \o sign)
         IN  (IF ClassifyOf(after) # ClassifyOf(w) THEN <<inverted>> ELSE <<>>)
             \o ChangingInverted(after, sequence, i + 1)

ProjectUndos ==
    (op'.name = "project") =>
        /\ ret' = Reverse(ChangingInverted(World, op'.sequence, 1))
        /\ includes'["Act"] = <<"Clas">>

\* C34: the undo sequence project returns holds the inverted form of exactly
\* the updates that changed CLASSIFY, in the reverse of the order they were
\* applied, and when project returns ACTION's includes are [CLASSIFY] again,
\* the scratch theory being removed.
C34_ProjectUndos == [][ProjectUndos]_vars

\* project([r+(1), q-(1)]) with q(1) stored and r(1) not has returned
\* [q+(1), r-(1)]
C34_Witness ==
    /\ op.name = "project"
    /\ op.sequence = <<Atom("r+", <<C(1)>>), Atom("q-", <<C(1)>>)>>
    /\ ret = <<Atom("q+", <<C(1)>>), Atom("r-", <<C(1)>>)>>
    /\ Stored("ClasDB", "r") = {1}
    /\ Stored("ClasDB", "q") = {}

-----------------------------------------------------------------------------
(* SpecUpdate: Runtime.update_classifier called with the atom updates on q  *)
(* and r over 1..MaxConstPQR and the rule updates p+(x) :- r(x) and         *)
(* p-(x) :- r(x), the rules of SpecSim being installed in CLASSIFY.  op     *)
(* records the update and what CLASSIFY held before the call; ret is the    *)
(* update returned, <<>> standing for None.                                 *)

\* a call that raises is no step
UpdateClassifier(update) ==
    LET Updated(r) == ~r.error /\ SetWorld(r.w) /\ ret' = r.undo
    IN  /\ pc = "idle"
        /\ Updated(call("update_classifier", <<World, update>>))
        /\ op' = [name |-> "update_classifier", update |-> update,
                  before |-> ClassifyOf(World)]
        /\ UNCHANGED pc

NextUpdate ==
    \/ \E rule \in SimRules : FacadeInsert(rule, "Clas")
    \/ \E update \in AtomUpdates \cup RuleUpdates :
          Installed(SimRules) /\ UpdateClassifier(update)

SpecUpdate == Init /\ [][NextUpdate]_vars

\* the formula of the update, its suffix stripped, is in CLASSIFY after an
\* update on T+ and not in it after any other
UpdateApplied ==
    LET formula == FormulaOf(op.update)
        present == IF is_atom(formula)
                   THEN argument_names(formula) \in
                            {<<c>> : c \in Stored("ClasDB", formula.table)}
                   ELSE formula \in delta["Clas"].originals
    IN  /\ present = endswith(tablename(op.update), "+")
        /\ \A t \in DOMAIN data["ClasDB"] : ~is_update(t)

\* the inverted update is returned iff CLASSIFY holds something else than
\* before the call
UpdateReturns ==
    ret = IF ClassifyOf(World) # op.before THEN <<invert_update(op.update)>>
          ELSE <<>>

\* the update a call returned, applied next, gives CLASSIFY what it held
\* before that call
UndoRestores ==
    (/\ op.name = "update_classifier" /\ ret # <<>>
     /\ op'.name = "update_classifier" /\ op'.update = ret[1]) =>
        ClassifyOf(World)' = op.before

\* what the code keeps of the claim: direction, stripping and returned value
C35_AppliedAndReturned ==
    [](op.name = "update_classifier" => (UpdateApplied /\ UpdateReturns))

\* C35: update_classifier inserts the formula of a T+ update, and deletes
\* that of any other, with the suffix stripped, in CLASSIFY; it returns the
\* inverted update iff the call changed CLASSIFY and None otherwise, and
\* applying the returned update restores the state before the call.
C35_UpdateClassifier ==
    /\ [](op.name = "update_classifier" => (UpdateApplied /\ UpdateReturns))
    /\ [][UndoRestores]_vars

-----------------------------------------------------------------------------
(* SpecResolve: Runtime.resolve_conflicts applied to a set of atoms of the  *)
(* tables p+, p-, q- and q over 1..MaxConst, drawn by the initial state.    *)
(* op holds the input and ret the set returned.                             *)

ConflictAtoms == UnaryAtoms({"p+", "p-", "q-", "q"}, MaxConst)

InitResolve ==
    /\ data = InitWorld.data
    /\ delta = InitWorld.delta
    /\ queue = InitWorld.queue
    /\ contents = InitWorld.contents
    /\ includes = InitWorld.includes
    /\ logger = InitWorld.logger
    /\ pc = "idle"
    /\ ret = {}
    /\ op \in {[name |-> "input", atoms |-> atoms] : atoms \in SUBSET ConflictAtoms}

ResolveConflicts ==
    /\ op.name = "input"
    /\ ret' = resolve_conflicts(op.atoms)
    /\ op' = [name |-> "resolve_conflicts", atoms |-> op.atoms]
    /\ UNCHANGED <<data, delta, queue, contents, includes, logger, pc>>

NextResolve == ResolveConflicts

SpecResolve == InitResolve /\ [][NextResolve]_vars

\* the atom is T-(args) and T+(args) is among atoms
Overridden(atom, atoms) ==
    /\ endswith(atom.table, "-")
    /\ \E other \in atoms :
          /\ other.table = SubSeq(atom.table, 1, Len(atom.table) - 1) \o "+"
          /\ other.args = atom.args

\* C36: resolve_conflicts(atoms) returns the input atoms without every
\* T-(args) for which T+(args) is also in the input; every + atom and every
\* atom without an update suffix is kept and no atom is added.
C36_ResolveConflicts ==
    op.name = "resolve_conflicts" =>
        /\ ret = {atom \in op.atoms : ~Overridden(atom, op.atoms)}
        /\ ret \subseteq op.atoms
        /\ \A atom \in op.atoms : ~endswith(atom.table, "-") => atom \in ret

\* p-(1) has been dropped for p+(1), and p-(2), q-(1) and q(1) are kept
C36_Witness ==
    /\ op.name = "resolve_conflicts"
    /\ op.atoms = {Atom("p+", <<C(1)>>), Atom("p-", <<C(1)>>), Atom("p-", <<C(2)>>),
                   Atom("q-", <<C(1)>>), Atom("q", <<C(1)>>)}
    /\ ret = op.atoms \ {Atom("p-", <<C(1)>>)}

-----------------------------------------------------------------------------
(* SpecViews: the rules p(x) :- q(x), p(x) :- r(x) and s(x) :- p(x) in      *)
(* CLASSIFY, then q and r atoms over 1..MaxConst inserted and deleted       *)
(* through the facade.                                                      *)

NextViews ==
    \/ \E rule \in SimRules : FacadeInsert(rule, "Clas")
    \/ \E atom \in UnaryAtoms({"q", "r"}, MaxConst) :
          Installed(SimRules) /\ FacadeInsert(atom, "None")
    \/ \E atom \in UnaryAtoms({"q", "r"}, MaxConst) :
          Installed(SimRules) /\ FacadeDelete(atom, "None")

SpecViews == Init /\ [][NextViews]_vars

\* C37: with p(x) :- q(x), p(x) :- r(x) and s(x) :- p(x) installed in
\* CLASSIFY, after any sequence of inserts and deletes of q and r atoms s(c)
\* is present iff p(c) is present: a delete event for p(c) that leaves p(c)
\* stored through another proof does not remove s(c).
C37_ViewsOverViews ==
    Installed(SimRules) => Stored("ClasDB", "s") = Stored("ClasDB", "p")

\* the first level of views alone: p(c) is present iff q(c) or r(c) is
PFollowsQR ==
    Installed(SimRules) =>
        Stored("ClasDB", "p") = Stored("ClasDB", "q") \cup Stored("ClasDB", "r")

-----------------------------------------------------------------------------
(* Event queues under SpecView: modify called on CLASSIFY and ENFORCEMENT   *)
(* with the atoms q(a) and alert(a) and the rule alert(x) :- q(x), a call   *)
(* that raises keeping what it had done.                                    *)

\* the queues of theory th and of the materialized theories it includes
QueuesDrained(th) == \A o \in ReachedFrom(th) : queue[o] = <<>>

\* C38: whenever insert, delete or modify of a MaterializedViewTheory
\* returns normally, its event queue and the queue of every materialized
\* theory it includes are empty, so that no event enqueued by one
\* modification is left to be processed by a later one: every call starts
\* with empty queues.
C38_QueuesDrained ==
    /\ (op.name = "modify" /\ ~op.raised) => QueuesDrained(op.theory)
    /\ pc = "idle" => \A o \in MaterializedObjs : queue[o] = <<>>

\* q(a) has been inserted through ENFORCEMENT with alert(x) :- q(x) installed
\* in CLASSIFY: the call went through the events of q(a) and alert(a) in
\* CLASSIFY and in ENFORCEMENT and returned both
C38_Witness ==
    /\ op.name = "modify" /\ ~op.raised /\ op.insert
    /\ op.theory = "Enfor" /\ op.formula = q_a
    /\ R_alert \in delta["Clas"].originals
    /\ {ret[i].formula : i \in 1..Len(ret)} = {q_a, alert_a}
    /\ QueuesDrained("Enfor")

-----------------------------------------------------------------------------
(* ENFORCEMENT's copy of CLASSIFY's tuples under SpecC1: the rule           *)
(* p(x) :- q(x) inserted into and deleted from CLASSIFY, q atoms inserted   *)
(* and deleted through the facade.                                          *)

\* the tuples database object o stores for table
TuplesOf(o, table) == {Rows(o, table)[i].tuple : i \in 1..Len(Rows(o, table))}

\* what ENFORCEMENT stores for a table its own rules do not define is stored
\* in CLASSIFY
NoStaleCopy ==
    \A table \in DOMAIN data["EnforDB"] :
        ~is_view(delta["Enfor"], table) =>
            TuplesOf("EnforDB", table) \subseteq TuplesOf("ClasDB", table)

\* what CLASSIFY stores for its views is stored in ENFORCEMENT
NoMissingCopy ==
    \A table \in DOMAIN data["ClasDB"] :
        is_view(delta["Clas"], table) =>
            TuplesOf("ClasDB", table) \subseteq TuplesOf("EnforDB", table)

\* C39: after any sequence of facade operations (atom inserts and deletes,
\* rule inserts and deletes targeting CLASSIFY) every tuple ENFORCEMENT's
\* database stores for a table not defined by ENFORCEMENT's own rules is
\* stored in CLASSIFY's database, and every view tuple of CLASSIFY is stored
\* in ENFORCEMENT's database.
C39_EnforcementCopy == NoStaleCopy /\ NoMissingCopy

\* the base tuples alone: ENFORCEMENT and CLASSIFY store the same q tuples
BaseCopies == TuplesOf("EnforDB", "q") = TuplesOf("ClasDB", "q")
====
